---- MODULE Spec2Model ----
(***************************************************************************)
(* Model of the operations-service consumer: the reorg-absorbing Batcher   *)
(* (src/src/consumer/batcher.rs), the single-slot channel to the Writer    *)
(* and the transactional Writer (src/src/consumer/mod.rs, storage.rs).     *)
(***************************************************************************)
EXTENDS Integers, Sequences, FiniteSets, TLC

(***************************************************************************)
(* Bounds of the model.                                                    *)
(***************************************************************************)
\* Number of updates the Batcher receives in one behaviour.
MaxInputs == 4
\* Largest time since the last flush that the clock counts (in ticks).
MaxTime == 1
\* Largest configured max_delay, in ticks.
MaxDelay == 1
\* Largest configured max_updates.
MaxUpdates == 3
\* Longest batch a sender other than the Batcher hands to the Writer.
MaxBatch == 2
\* No further batch is sent once the store has assigned this many block uids.
MaxBlocks == 3
\* Largest height stored when consumer::run starts on a used database.
MaxHeight == 3
\* Largest configured start_rollback_depth.
MaxDepth == 3
\* The largest limit of a request below the maximum, the longest cursor a
\* client makes up, the largest uid of the small tables.
MaxLimit == 2
MaxCursorLen == 2
MaxRows == 4
\* Most transactions in a block of the upstream.
MaxTxs == 2
\* The holders of clones of the storage, and the transactions each of them runs.
MaxCallers == 2
MaxCalls == 2

(***************************************************************************)
(* Option<T>: None is the empty sequence, Some(v) the one-element one.     *)
(***************************************************************************)
None == << >>
Some(v) == << v >>
Last(s) == s[Len(s)]

(***************************************************************************)
(* Data model: updates.rs BlockchainUpdate, model.rs Transaction.          *)
(***************************************************************************)
Transaction(id, sender, tx_type) ==
    [id |-> id, sender |-> sender, tx_type |-> tx_type]

AppendBlock(block_id, height, timestamp, is_microblock, txs) ==
    [kind |-> "Append", block_id |-> block_id, height |-> height,
     timestamp |-> timestamp, is_microblock |-> is_microblock,
     transactions |-> txs]

Rollback(block_id) == [kind |-> "Rollback", block_id |-> block_id]

IsAppend(u) == u.kind = "Append"
IsRollback(u) == u.kind = "Rollback"

\* The updates the upstream can send in this model: two full blocks (with
\* the header timestamp), two microblocks at the height of the first (no
\* timestamp, as convert_update extracts them), and rollbacks to them.
T1 == Transaction("t1", "alice", 16)
T2 == Transaction("t2", "bob", 18)
B1 == AppendBlock("b1", 1, Some(100), FALSE, << T1 >>)
B2 == AppendBlock("b2", 2, Some(200), FALSE, << >>)
M1 == AppendBlock("m1", 1, None, TRUE, << T2 >>)
M2 == AppendBlock("m2", 1, None, TRUE, << >>)
RollbackTargets == {"b1", "m1", "b2"}
Updates == {B1, B2, M1, M2} \cup {Rollback(id) : id \in RollbackTargets}

\* A microblock as it sits in the buffer once its timestamp is propagated.
WithTimestamp(append, ts) == [append EXCEPT !.timestamp = ts]

VARIABLES
    batching_params,        \* BatchingParams {max_updates, max_delay}
    buffer,                 \* Batcher::buffer
    last_block_timestamp,   \* Batcher::last_block_timestamp
    last_block_height,      \* Batcher::last_block_height
    last_flush_elapsed,     \* Batcher::last_flush, as last_flush.elapsed() in ticks
    batcher_pc,             \* where Batcher::run is: "recv", "send", "panicked", "failed",
                            \* "stopped"
    updates,                \* flush: the drained batch awaiting output.send
    delayed_update,         \* flush: the detached microblock tail
    output,                 \* the Batcher -> Writer channel (capacity 1)
    trace,                  \* history: one record per update received by run
    emitted,                \* history: the batches sent on output, in order
    writer_pc,              \* where consumer::run is: "init", then the Writer's
                            \* "recv", "write", "abort", "failed", "panicked", "stopped"
    batch,                  \* write_batch: the batch being applied (the last one received)
    applied,                \* write_batch: how many updates of batch the loop has applied
    store,                  \* the tables as the Writer's connection sees them
    snapshot,               \* the tables at BEGIN while a transaction is open, else None
    last_height,            \* write_batch: last_height
    before_batch,           \* history: the store when the transaction began
    start_rollback_depth,   \* config.blockchain_updates.start_rollback_depth
    config_starting_height, \* config.blockchain_updates.starting_height
    starting_height,        \* consumer::run: starting_height, None until computed
    stream,                 \* the normalized updates the upstream stream delivers, in order
    input,                  \* the Source -> Batcher channel (capacity 16)
    source_pc,              \* where pump_messages is: "pump", "closed" once tx is dropped
    query,                  \* get_operations_handler: the OperationsQuery handled last
    reply,                  \* get_operations_handler: its reply, None before the first
    listed,                 \* history: the items of the pages since the first of the listing
    src,                    \* convert_update: the BlockchainUpdated of the upstream
    converted,              \* convert_update: its result, None before the call
    conn,                   \* PostgresStorage::conn: the Option inside the mutex
    conn_mutex,             \* PostgresStorage::conn: the mutex, its holder and poison flag
    task                    \* transaction: where each caller's spawn_blocking closure is

batcher_vars == << batching_params, buffer, last_block_timestamp, last_block_height,
                   last_flush_elapsed, batcher_pc, updates, delayed_update, output,
                   trace, emitted >>

bootstrap_vars == << start_rollback_depth, config_starting_height, starting_height >>

writer_vars == << writer_pc, batch, applied, store, snapshot, last_height, before_batch,
                  bootstrap_vars >>

source_vars == << stream, input, source_pc >>

service_vars == << query, reply, listed >>

convert_vars == << src, converted >>

storage_vars == << conn, conn_mutex, task >>

vars == << batcher_vars, writer_vars, source_vars, service_vars, convert_vars,
          storage_vars >>

\* mpsc::channel::<Vec<BlockchainUpdate>>(1)
OutputCapacity == 1

\* mpsc::channel::<BlockchainUpdate>(16)
InputCapacity == 16

\* config.rs: fn default_starting_height() -> u32
default_starting_height == 0

(***************************************************************************)
(* Batcher::push_update                                                    *)
(***************************************************************************)
\* A faulty variant of rposition: the scan finds nothing.
rposition_nowhere(buf, block_id) == 0

\* A faulty variant of rposition: the scan stops at the hit closest to the head.
rposition_from_head(buf, block_id) ==
    LET hits == {i \in 1..Len(buf) : IsAppend(buf[i]) /\ buf[i].block_id = block_id}
    IN IF hits = {} THEN 0 ELSE CHOOSE i \in hits : \A j \in hits : i <= j

\* The index (1-based) of the Append with block_id closest to the tail, 0 if
\* the buffer holds none: buffer.iter().enumerate().rev() stops at the first hit.
rposition(buf, block_id) ==
    LET hits == {i \in 1..Len(buf) : IsAppend(buf[i]) /\ buf[i].block_id = block_id}
    IN IF hits = {} THEN 0 ELSE CHOOSE i \in hits : \A j \in hits : j <= i

Pushed(buf, lbh, lbt, outcome) ==
    [panic |-> FALSE, outcome |-> outcome, buffer |-> buf,
     last_block_height |-> lbh, last_block_timestamp |-> lbt]

Panicked(buf, lbh, lbt) ==
    [panic |-> TRUE, outcome |-> "panic", buffer |-> buf,
     last_block_height |-> lbh, last_block_timestamp |-> lbt]

\* A faulty variant of push_append: the update is pushed as received.
push_append_as_received(buf, lbh, lbt, append) ==
    Pushed(Append(buf, append), lbh, lbt, "pushed")

\* A faulty variant of push_append: a patched microblock also becomes the last known
\* block, with the timestamp it was received with.
push_append_tracking_microblock(buf, lbh, lbt, append) ==
    IF append.is_microblock /\ append.timestamp = None
    THEN IF lbh # None /\ lbh[1] = append.height /\ lbt # None
         THEN Pushed(Append(buf, WithTimestamp(append, lbt)),
                     Some(append.height), append.timestamp, "pushed")
         ELSE Panicked(buf, lbh, lbt)
    ELSE Pushed(Append(buf, append), Some(append.height), append.timestamp, "pushed")

push_append(buf, lbh, lbt, append) ==
    IF append.is_microblock /\ append.timestamp = None
    THEN IF lbh # None
         THEN IF lbh[1] = append.height
              THEN IF lbt # None
                   THEN Pushed(Append(buf, WithTimestamp(append, lbt)), lbh, lbt, "pushed")
                   ELSE Panicked(buf, lbh, lbt)
              ELSE Panicked(buf, lbh, lbt)
         ELSE Panicked(buf, lbh, lbt)
    ELSE Pushed(Append(buf, append), Some(append.height), append.timestamp, "pushed")

push_rollback(buf, lbh, lbt, rollback) ==
    LET i == rposition(buf, rollback.block_id)
    IN IF i > 0
       THEN Pushed(SubSeq(buf, 1, i), lbh, lbt, "absorbed")
       ELSE Pushed(Append(buf, rollback), None, None, "pushed")

push_update(buf, lbh, lbt, update) ==
    IF IsAppend(update)
    THEN push_append(buf, lbh, lbt, update)
    ELSE push_rollback(buf, lbh, lbt, update)

(***************************************************************************)
(* Batcher::need_flush                                                     *)
(***************************************************************************)
\* A faulty variant of need_flush: a microblock on top flushes even when it is alone.
need_flush_lone_microblock(buf, params, elapsed) ==
    IF buf = << >> THEN FALSE
    ELSE IF IsRollback(Last(buf)) THEN FALSE
    ELSE IF \E i \in 1..Len(buf) : IsRollback(buf[i]) THEN TRUE
    ELSE IF IsAppend(Last(buf)) /\ Last(buf).is_microblock THEN TRUE
    ELSE IF params.max_updates # None /\ Len(buf) >= params.max_updates[1] THEN TRUE
    ELSE IF params.max_delay # None /\ elapsed >= params.max_delay[1] THEN TRUE
    ELSE IF params.max_updates = None /\ params.max_delay = None THEN TRUE
    ELSE FALSE

\* A faulty variant of need_flush: no flush for a microblock on top of other updates.
need_flush_without_microblock_rule(buf, params, elapsed) ==
    IF buf = << >> THEN FALSE
    ELSE IF IsRollback(Last(buf)) THEN FALSE
    ELSE IF \E i \in 1..Len(buf) : IsRollback(buf[i]) THEN TRUE
    ELSE IF params.max_updates # None /\ Len(buf) >= params.max_updates[1] THEN TRUE
    ELSE IF params.max_delay # None /\ elapsed >= params.max_delay[1] THEN TRUE
    ELSE IF params.max_updates = None /\ params.max_delay = None THEN TRUE
    ELSE FALSE

\* A faulty variant of need_flush: the buffer size is not compared to max_updates.
need_flush_without_max_updates(buf, params, elapsed) ==
    IF buf = << >> THEN FALSE
    ELSE IF IsRollback(Last(buf)) THEN FALSE
    ELSE IF \E i \in 1..Len(buf) : IsRollback(buf[i]) THEN TRUE
    ELSE IF Len(buf) > 1 /\ IsAppend(Last(buf)) /\ Last(buf).is_microblock THEN TRUE
    ELSE IF params.max_delay # None /\ elapsed >= params.max_delay[1] THEN TRUE
    ELSE IF params.max_updates = None /\ params.max_delay = None THEN TRUE
    ELSE FALSE

\* A faulty variant of need_flush: the size of the buffer is looked at before the
\* Rollback at its tail.
need_flush_size_first(buf, params, elapsed) ==
    IF buf = << >> THEN FALSE
    ELSE IF params.max_updates # None /\ Len(buf) >= params.max_updates[1] THEN TRUE
    ELSE IF IsRollback(Last(buf)) THEN FALSE
    ELSE IF \E i \in 1..Len(buf) : IsRollback(buf[i]) THEN TRUE
    ELSE IF Len(buf) > 1 /\ IsAppend(Last(buf)) /\ Last(buf).is_microblock THEN TRUE
    ELSE IF params.max_delay # None /\ elapsed >= params.max_delay[1] THEN TRUE
    ELSE IF params.max_updates = None /\ params.max_delay = None THEN TRUE
    ELSE FALSE

need_flush(buf, params, elapsed) ==
    IF buf = << >> THEN FALSE
    ELSE IF IsRollback(Last(buf)) THEN FALSE
    ELSE IF \E i \in 1..Len(buf) : IsRollback(buf[i]) THEN TRUE
    ELSE IF Len(buf) > 1 /\ IsAppend(Last(buf)) /\ Last(buf).is_microblock THEN TRUE
    ELSE IF params.max_updates # None /\ Len(buf) >= params.max_updates[1] THEN TRUE
    ELSE IF params.max_delay # None /\ elapsed >= params.max_delay[1] THEN TRUE
    ELSE IF params.max_updates = None /\ params.max_delay = None THEN TRUE
    ELSE FALSE

(***************************************************************************)
(* Batcher::flush, up to the send                                          *)
(***************************************************************************)
\* A faulty variant of flush_delayed: the microblock tail is not detached.
flush_delayed_none(buf) == None

\* A faulty variant of flush_delayed: any Append at the tail is detached.
flush_delayed_any_append(buf) ==
    IF buf # << >> /\ IsAppend(Last(buf)) THEN Some(Last(buf)) ELSE None

flush_delayed(buf) ==
    IF buf # << >> /\ IsAppend(Last(buf)) /\ Last(buf).is_microblock
    THEN Some(Last(buf))
    ELSE None

\* A faulty variant of flush_updates: the whole buffer is drained, its tail included.
flush_updates_all(buf) == buf

\* A faulty variant of flush_updates: the batch is collected from the tail.
flush_updates_reversed(buf) ==
    LET n == IF buf # << >> /\ IsAppend(Last(buf)) /\ Last(buf).is_microblock
             THEN Len(buf) - 1 ELSE Len(buf)
    IN [i \in 1..n |-> buf[n + 1 - i]]

flush_updates(buf) ==
    IF flush_delayed(buf) # None THEN SubSeq(buf, 1, Len(buf) - 1) ELSE buf

(***************************************************************************)
(* Initial state: batcher::start                                           *)
(***************************************************************************)
BatchingParams ==
    [max_updates : {None} \cup {Some(n) : n \in 1..MaxUpdates},
     max_delay : {None} \cup {Some(d) : d \in 1..MaxDelay}]

BatcherInit ==
    /\ batching_params \in BatchingParams
    /\ buffer = << >>
    /\ last_block_timestamp = None
    /\ last_block_height = None
    /\ last_flush_elapsed = 0
    /\ batcher_pc = "recv"
    /\ updates = << >>
    /\ delayed_update = None
    /\ output = << >>
    /\ trace = << >>
    /\ emitted = << >>

(***************************************************************************)
(* Actions                                                                 *)
(***************************************************************************)
\* Time passes.
Tick ==
    /\ last_flush_elapsed < MaxTime
    /\ last_flush_elapsed' = last_flush_elapsed + 1
    /\ UNCHANGED << batching_params, buffer, last_block_timestamp, last_block_height,
                    batcher_pc, updates, delayed_update, output, trace, emitted >>
    /\ UNCHANGED writer_vars
    /\ UNCHANGED source_vars
    /\ UNCHANGED service_vars
    /\ UNCHANGED convert_vars
    /\ UNCHANGED storage_vars

\* One iteration of Batcher::run on a received update, up to the await of
\* output.send: push_update, need_flush and, if it says so, the first half of
\* flush.
run_iteration(update) ==
    /\ batcher_pc = "recv"
    /\ Len(trace) < MaxInputs
    /\ LET r == push_update(buffer, last_block_height, last_block_timestamp, update)
           flushing == ~r.panic /\ need_flush(r.buffer, batching_params, last_flush_elapsed)
           sent == IF flushing THEN flush_updates(r.buffer) ELSE << >>
           delayed == IF flushing THEN flush_delayed(r.buffer) ELSE None
       IN /\ last_block_height' = r.last_block_height
          /\ last_block_timestamp' = r.last_block_timestamp
          /\ batcher_pc' = IF r.panic THEN "panicked"
                           ELSE IF flushing THEN "send" ELSE "recv"
          /\ buffer' = IF flushing THEN << >> ELSE r.buffer
          /\ updates' = sent
          /\ delayed_update' = delayed
          /\ trace' = Append(trace,
                 [update |-> update,        \* the update received
                  buffer |-> buffer,        \* the buffer before push_update
                  outcome |-> r.outcome,    \* "pushed", "absorbed" or "panic"
                  pushed |-> r.buffer,      \* the buffer after push_update
                  flush |-> flushing,       \* need_flush
                  updates |-> sent,         \* the batch drained by flush
                  kept |-> IF flushing THEN delayed ELSE r.buffer])
    /\ UNCHANGED << batching_params, last_flush_elapsed, output, emitted >>
    /\ UNCHANGED writer_vars

\* Batcher::run receives an update, whatever the Source has queued.
BatcherRecv(update) ==
    /\ run_iteration(update)
    /\ UNCHANGED source_vars
    /\ UNCHANGED service_vars
    /\ UNCHANGED convert_vars
    /\ UNCHANGED storage_vars

\* pump_messages: the next update of the stream is sent on the channel to the
\* Batcher once the channel has room.
pump_messages ==
    /\ source_pc = "pump"
    /\ Len(trace) + Len(input) < Len(stream)
    /\ Len(input) < InputCapacity
    /\ input' = Append(input, stream[Len(trace) + Len(input) + 1])
    /\ UNCHANGED << stream, source_pc >>
    /\ UNCHANGED << batcher_vars, writer_vars >>
    /\ UNCHANGED service_vars
    /\ UNCHANGED convert_vars
    /\ UNCHANGED storage_vars

\* Batcher::run receives the update at the head of the channel.
InputRecv ==
    /\ input # << >>
    /\ run_iteration(Head(input))
    /\ input' = Tail(input)
    /\ UNCHANGED << stream, source_pc >>
    /\ UNCHANGED service_vars
    /\ UNCHANGED convert_vars
    /\ UNCHANGED storage_vars

\* A faulty variant of BatcherSend: output.send completes whether or not the channel
\* has room.
BatcherSendUnbounded ==
    /\ batcher_pc = "send"
    /\ output' = Append(output, updates)
    /\ emitted' = Append(emitted, updates)
    /\ buffer' = delayed_update
    /\ last_flush_elapsed' = 0
    /\ batcher_pc' = "recv"
    /\ updates' = << >>
    /\ delayed_update' = None
    /\ UNCHANGED << batching_params, last_block_timestamp, last_block_height, trace >>
    /\ UNCHANGED writer_vars
    /\ UNCHANGED source_vars
    /\ UNCHANGED service_vars
    /\ UNCHANGED convert_vars
    /\ UNCHANGED storage_vars

\* The second half of flush: output.send completes once the channel has room,
\* the delayed microblock goes back to the buffer and last_flush is reset.
BatcherSend ==
    /\ batcher_pc = "send"
    /\ Len(output) < OutputCapacity
    /\ output' = Append(output, updates)
    /\ emitted' = Append(emitted, updates)
    /\ buffer' = delayed_update
    /\ last_flush_elapsed' = 0
    /\ batcher_pc' = "recv"
    /\ updates' = << >>
    /\ delayed_update' = None
    /\ UNCHANGED << batching_params, last_block_timestamp, last_block_height, trace >>
    /\ UNCHANGED writer_vars
    /\ UNCHANGED source_vars
    /\ UNCHANGED service_vars
    /\ UNCHANGED convert_vars
    /\ UNCHANGED storage_vars

\* The receiving end of the channel takes the batch (rx.recv() in consumer::run).
OutputRecv ==
    /\ output # << >>
    /\ output' = Tail(output)
    /\ UNCHANGED << batching_params, buffer, last_block_timestamp, last_block_height,
                    last_flush_elapsed, batcher_pc, updates, delayed_update,
                    trace, emitted >>
    /\ UNCHANGED writer_vars
    /\ UNCHANGED source_vars
    /\ UNCHANGED service_vars
    /\ UNCHANGED convert_vars
    /\ UNCHANGED storage_vars

(***************************************************************************)
(* The store: schema.rs tables and the Repo of storage.rs                  *)
(***************************************************************************)
Tables(blocks, txs) == [blocks_microblocks |-> blocks, transactions |-> txs]

EmptyStore ==
    [blocks_microblocks |-> {}, transactions |-> {},
     blocks_uid_seq |-> 0, transactions_uid_seq |-> 0]

\* The rows of the two tables, without the sequences.
Rows(st) == Tables(st.blocks_microblocks, st.transactions)

\* uid is assigned by the database from a sequence: monotonic in insertion order.
next_uid(seq) == seq + 1

\* ON DELETE CASCADE of transactions.block_uid: the transactions of a deleted
\* block go with it.
cascade(blocks, txs) == {t \in txs : \E b \in blocks : b.uid = t.block_uid}

Ok(st, value) == [ok |-> TRUE, store |-> st, value |-> value]
Err(st) == [ok |-> FALSE, store |-> st, value |-> None]

\* Repo::insert_block. The table's key is id: a second row with it is refused.
insert_block(st, id, height, timestamp) ==
    IF \E b \in st.blocks_microblocks : b.id = id
    THEN Err(st)
    ELSE LET uid == next_uid(st.blocks_uid_seq)
             row == [uid |-> uid, id |-> id, height |-> height, time_stamp |-> timestamp]
         IN Ok([st EXCEPT !.blocks_microblocks = @ \cup {row}, !.blocks_uid_seq = uid], uid)

\* Repo::insert_tx. The table's key is id.
insert_tx(st, id, block_uid, sender, tx_type, operation) ==
    IF \E t \in st.transactions : t.id = id
    THEN Err(st)
    ELSE LET uid == next_uid(st.transactions_uid_seq)
             row == [uid |-> uid, id |-> id, block_uid |-> block_uid, sender |-> sender,
                     tx_type |-> tx_type, op_type |-> "invoke_script",
                     operation |-> operation]
         IN Ok([st EXCEPT !.transactions = @ \cup {row}, !.transactions_uid_seq = uid], uid)

\* Repo::block_uid: get_result fails when no row has the id.
block_uid(st, block_id) ==
    LET found == {b \in st.blocks_microblocks : b.id = block_id}
    IN IF found = {} THEN Err(st) ELSE Ok(st, (CHOOSE b \in found : TRUE).uid)

\* A faulty variant of rollback_to_block: the block rows go, their transactions stay.
rollback_to_block_keeping_transactions(st, uid) ==
    LET kept == {b \in st.blocks_microblocks : ~(b.uid > uid)}
    IN Ok([st EXCEPT !.blocks_microblocks = kept], None)

\* A faulty variant of rollback_to_block: the target row is deleted too.
rollback_to_block_inclusive(st, uid) ==
    LET kept == {b \in st.blocks_microblocks : ~(b.uid >= uid)}
    IN Ok([st EXCEPT !.blocks_microblocks = kept,
                     !.transactions = cascade(kept, @)], None)

\* Repo::rollback_to_block: delete the block rows with a larger uid.
rollback_to_block(st, uid) ==
    LET kept == {b \in st.blocks_microblocks : ~(b.uid > uid)}
    IN Ok([st EXCEPT !.blocks_microblocks = kept,
                     !.transactions = cascade(kept, @)], None)

\* Repo::last_height: select max(height), None on an empty table.
repo_last_height(st) ==
    LET heights == {b.height : b \in st.blocks_microblocks}
    IN IF heights = {} THEN Ok(st, None)
       ELSE Ok(st, Some(CHOOSE h \in heights : \A g \in heights : g <= h))

\* A faulty variant of rollback_to_height: the rows of the height itself are deleted too.
rollback_to_height_inclusive(st, height) ==
    LET kept == {b \in st.blocks_microblocks : ~(b.height >= height)}
    IN Ok([st EXCEPT !.blocks_microblocks = kept,
                     !.transactions = cascade(kept, @)], None)

\* Repo::rollback_to_height: delete the block rows with a larger height.
rollback_to_height(st, height) ==
    LET kept == {b \in st.blocks_microblocks : ~(b.height > height)}
    IN Ok([st EXCEPT !.blocks_microblocks = kept,
                     !.transactions = cascade(kept, @)], None)

(***************************************************************************)
(* write_batch: the body of the loop, for one update.  fail_at numbers the *)
(* statement of this update at which the store reports an error (0: none). *)
(***************************************************************************)
Statements(update) == IF IsAppend(update) THEN 1 + Len(update.transactions) ELSE 2

RECURSIVE insert_txs(_, _, _, _, _)
insert_txs(st, txs, uid, n, fail_at) ==
    IF txs = << >> THEN Ok(st, None)
    ELSE LET tx == Head(txs)
             r == IF n = fail_at THEN Err(st)
                  ELSE insert_tx(st, tx.id, uid, tx.sender, tx.tx_type, tx)
         IN IF r.ok THEN insert_txs(r.store, Tail(txs), uid, n + 1, fail_at) ELSE r

Written(status, st, height) == [status |-> status, store |-> st, last_height |-> height]

\* A faulty variant of write_append: the block row is inserted without its transactions.
write_append_without_txs(st, height, append, fail_at) ==
    IF append.timestamp = None
    THEN Written("panic", st, height)
    ELSE LET b == IF fail_at = 1 THEN Err(st)
                  ELSE insert_block(st, append.block_id, append.height, append.timestamp[1])
         IN IF b.ok THEN Written("ok", b.store, Some(append.height))
            ELSE Written("error", b.store, height)

write_append(st, height, append, fail_at) ==
    IF append.timestamp = None
    THEN Written("panic", st, height)
    ELSE LET b == IF fail_at = 1 THEN Err(st)
                  ELSE insert_block(st, append.block_id, append.height, append.timestamp[1])
         IN IF ~b.ok THEN Written("error", b.store, height)
            ELSE LET t == insert_txs(b.store, append.transactions, b.value, 2, fail_at)
                 IN IF t.ok THEN Written("ok", t.store, Some(append.height))
                    ELSE Written("error", t.store, height)

write_rollback(st, height, rollback, fail_at) ==
    LET u == IF fail_at = 1 THEN Err(st) ELSE block_uid(st, rollback.block_id)
    IN IF ~u.ok THEN Written("error", u.store, height)
       ELSE LET d == IF fail_at = 2 THEN Err(u.store) ELSE rollback_to_block(u.store, u.value)
            IN IF d.ok THEN Written("ok", d.store, height)
               ELSE Written("error", d.store, height)

write_update(st, height, update, fail_at) ==
    IF IsAppend(update)
    THEN write_append(st, height, update, fail_at)
    ELSE write_rollback(st, height, update, fail_at)

(***************************************************************************)
(* PostgresStorage::transaction: conn.transaction(|conn| f(conn))          *)
(***************************************************************************)
\* A faulty variant of transaction_rollback: the closure runs outside a transaction, so
\* what it did before the error stays.
transaction_rollback_nothing(st, snap) == st

\* ROLLBACK: the tables are those of BEGIN again (a sequence is not rewound).
transaction_rollback(st, snap) ==
    [st EXCEPT !.blocks_microblocks = snap.blocks_microblocks,
               !.transactions = snap.transactions]

\* What is persisted: what a reader outside the transaction sees.
Persisted == IF snapshot = None THEN Rows(store) ELSE snapshot[1]

\* consumer::run on a new database: nothing is stored, so init_db_task rewinds
\* nothing and the stream starts at the configured height.
WriterInit ==
    /\ writer_pc = "recv"
    /\ batch = << >>
    /\ applied = 0
    /\ store = EmptyStore
    /\ snapshot = None
    /\ last_height = None
    /\ before_batch = EmptyStore
    /\ start_rollback_depth = 1
    /\ config_starting_height = default_starting_height
    /\ starting_height = Some(config_starting_height)

\* consumer::run: rx.recv() hands a batch to write_batch, which opens the
\* store transaction.
WriterRecv ==
    /\ writer_pc = "recv"
    /\ output # << >>
    /\ output' = Tail(output)
    /\ batch' = Head(output)
    /\ applied' = 0
    /\ snapshot' = Some(Rows(store))
    /\ before_batch' = store
    /\ last_height' = None
    /\ writer_pc' = "write"
    /\ UNCHANGED << store >>
    /\ UNCHANGED << batching_params, buffer, last_block_timestamp, last_block_height,
                    last_flush_elapsed, batcher_pc, updates, delayed_update,
                    trace, emitted >>
    /\ UNCHANGED bootstrap_vars
    /\ UNCHANGED source_vars
    /\ UNCHANGED service_vars
    /\ UNCHANGED convert_vars
    /\ UNCHANGED storage_vars

\* write_batch: one turn of `for update in batch`.
WriteUpdate ==
    /\ writer_pc = "write"
    /\ applied < Len(batch)
    /\ \E fail_at \in 0..Statements(batch[applied + 1]) :
         LET w == write_update(store, last_height, batch[applied + 1], fail_at)
         IN /\ store' = w.store
            /\ last_height' = w.last_height
            /\ writer_pc' = CASE w.status = "ok" -> "write"
                              [] w.status = "error" -> "abort"
                              [] OTHER -> "panicked"
            /\ applied' = IF w.status = "ok" THEN applied + 1 ELSE applied
    /\ UNCHANGED << batch, snapshot, before_batch >>
    /\ UNCHANGED batcher_vars
    /\ UNCHANGED bootstrap_vars
    /\ UNCHANGED source_vars
    /\ UNCHANGED service_vars
    /\ UNCHANGED convert_vars
    /\ UNCHANGED storage_vars

\* The closure returned Ok: COMMIT.
WriterCommit ==
    /\ writer_pc = "write"
    /\ applied = Len(batch)
    /\ snapshot' = None
    /\ writer_pc' = "recv"
    /\ UNCHANGED << batch, applied, store, last_height, before_batch >>
    /\ UNCHANGED batcher_vars
    /\ UNCHANGED bootstrap_vars
    /\ UNCHANGED source_vars
    /\ UNCHANGED service_vars
    /\ UNCHANGED convert_vars
    /\ UNCHANGED storage_vars

\* A faulty variant of WriterAbort: the error is dropped and the loop goes on to the
\* next batch.
WriterAbortAndContinue ==
    /\ writer_pc = "abort"
    /\ store' = transaction_rollback(store, snapshot[1])
    /\ snapshot' = None
    /\ writer_pc' = "recv"
    /\ UNCHANGED << batch, applied, last_height, before_batch >>
    /\ UNCHANGED batcher_vars
    /\ UNCHANGED bootstrap_vars
    /\ UNCHANGED source_vars
    /\ UNCHANGED service_vars
    /\ UNCHANGED convert_vars
    /\ UNCHANGED storage_vars

\* The closure returned Err: ROLLBACK, and the error ends consumer::run.
WriterAbort ==
    /\ writer_pc = "abort"
    /\ store' = transaction_rollback(store, snapshot[1])
    /\ snapshot' = None
    /\ writer_pc' = "failed"
    /\ UNCHANGED << batch, applied, last_height, before_batch >>
    /\ UNCHANGED batcher_vars
    /\ UNCHANGED bootstrap_vars
    /\ UNCHANGED source_vars
    /\ UNCHANGED service_vars
    /\ UNCHANGED convert_vars
    /\ UNCHANGED storage_vars

\* pump_messages returns (the stream ended, stream.message() or convert_update
\* gave an error): tx is dropped and the channel to the Batcher is closed.
SourceClose ==
    /\ source_pc = "pump"
    /\ source_pc' = "closed"
    /\ UNCHANGED << stream, input >>
    /\ UNCHANGED << batcher_vars, writer_vars >>
    /\ UNCHANGED service_vars
    /\ UNCHANGED convert_vars
    /\ UNCHANGED storage_vars

\* Batcher::run: input.recv() gives None once the channel is closed and empty;
\* run returns Ok(()) and the Batcher, with its buffer and output, is dropped.
BatcherStop ==
    /\ batcher_pc = "recv"
    /\ input = << >>
    /\ source_pc = "closed"
    /\ batcher_pc' = "stopped"
    /\ UNCHANGED << batching_params, buffer, last_block_timestamp, last_block_height,
                    last_flush_elapsed, updates, delayed_update, output, trace, emitted >>
    /\ UNCHANGED writer_vars
    /\ UNCHANGED source_vars
    /\ UNCHANGED service_vars
    /\ UNCHANGED convert_vars
    /\ UNCHANGED storage_vars

\* consumer::run has returned or panicked: rx is dropped.
WriterEnded == writer_pc \in {"stopped", "failed", "panicked"}

\* Batcher::run has returned or panicked: output is dropped.
BatcherEnded == batcher_pc \in {"stopped", "failed", "panicked"}

\* flush: output.send gives an error once the receiver is dropped; run
\* returns it and batcher::start panics with "receiver dropped".
BatcherSendFails ==
    /\ batcher_pc = "send"
    /\ WriterEnded
    /\ batcher_pc' = "failed"
    /\ UNCHANGED << batching_params, buffer, last_block_timestamp, last_block_height,
                    last_flush_elapsed, updates, delayed_update, output, trace, emitted >>
    /\ UNCHANGED writer_vars
    /\ UNCHANGED source_vars
    /\ UNCHANGED service_vars
    /\ UNCHANGED convert_vars
    /\ UNCHANGED storage_vars

\* flush: output.send completes while the receiver is there.
BatcherSendToWriter == ~WriterEnded /\ BatcherSend

\* consumer::run: rx.recv() gives None once the Batcher has dropped output and
\* the channel is empty; the loop ends and run returns Ok(()).
WriterStop ==
    /\ writer_pc = "recv"
    /\ output = << >>
    /\ BatcherEnded
    /\ writer_pc' = "stopped"
    /\ UNCHANGED << batch, applied, store, snapshot, last_height, before_batch >>
    /\ UNCHANGED bootstrap_vars
    /\ UNCHANGED batcher_vars
    /\ UNCHANGED source_vars
    /\ UNCHANGED service_vars
    /\ UNCHANGED convert_vars
    /\ UNCHANGED storage_vars

(***************************************************************************)
(* consumer::run: init_db_task and the choice of the starting height       *)
(***************************************************************************)
\* The height init_db_task rewinds the store to, None for no rewind.
rollback_to_height_of(height, rb) ==
    IF height # None /\ rb > 0 /\ height[1] >= rb THEN Some(height[1] - rb) ELSE None

\* The closure of init_db_task's transaction.  fail_at numbers the statement
\* at which the store reports an error (0: none).
init_db(st, rb, fail_at) ==
    LET h == IF fail_at = 1 THEN Err(st) ELSE repo_last_height(st)
    IN IF ~h.ok THEN Err(st)
       ELSE LET to == rollback_to_height_of(h.value, rb)
            IN IF to = None THEN Ok(h.store, h.value)
               ELSE LET d == IF fail_at = 2 THEN Err(h.store)
                             ELSE rollback_to_height(h.store, to[1])
                    IN IF d.ok THEN Ok(d.store, h.value) ELSE Err(d.store)

\* last_processed_height.unwrap_or(config.blockchain_updates.starting_height)
unwrap_or(option, default) == IF option # None THEN option[1] ELSE default

\* consumer::run from its start to updates_source.stream(starting_height).
Bootstrap(fail_at) ==
    /\ writer_pc = "init"
    /\ LET r == init_db(store, start_rollback_depth, fail_at)
       IN IF r.ok
          THEN /\ store' = r.store
               /\ starting_height' = Some(unwrap_or(r.value, config_starting_height))
               /\ writer_pc' = "recv"
          ELSE /\ store' = transaction_rollback(r.store, Rows(store))
               /\ starting_height' = None
               /\ writer_pc' = "failed"
    /\ before_batch' = store
    /\ UNCHANGED << batch, applied, snapshot, last_height,
                    start_rollback_depth, config_starting_height >>
    /\ UNCHANGED batcher_vars
    /\ UNCHANGED source_vars
    /\ UNCHANGED service_vars
    /\ UNCHANGED convert_vars
    /\ UNCHANGED storage_vars

\* The stores an earlier run can have left: the blocks of heights 1..H in
\* order, some of them followed by a microblock of the same height.
BlockIds == << "b1", "b2", "b3", "b4", "b5" >>
MicroblockIds == << "m1", "m2", "m3", "m4", "m5" >>

ChainBlock(h) ==
    AppendBlock(BlockIds[h], h, Some(100 * h), FALSE, IF h = 1 THEN << T1 >> ELSE << >>)

ChainMicroblock(h) ==
    AppendBlock(MicroblockIds[h], h, Some(100 * h), TRUE, IF h = 1 THEN << T2 >> ELSE << >>)

RECURSIVE Chain(_, _)
Chain(H, micro) ==
    IF H = 0 THEN << >>
    ELSE Chain(H - 1, micro) \o << ChainBlock(H) >>
            \o (IF H \in micro THEN << ChainMicroblock(H) >> ELSE << >>)

RECURSIVE Stored(_)
Stored(chain) ==
    IF chain = << >> THEN EmptyStore
    ELSE write_update(Stored(SubSeq(chain, 1, Len(chain) - 1)), None, Last(chain), 0).store

BootStores == {Stored(Chain(H, micro)) : H \in 0..MaxHeight, micro \in SUBSET (1..MaxHeight)}

\* Any sender of batches: the Writer takes whatever Vec<BlockchainUpdate> it is
\* sent.  This sender hands over a batch when the Writer waits for one.
\* One Append carries two transactions.
T3 == Transaction("t3", "alice", 18)
T4 == Transaction("t4", "bob", 16)
B2Pair == [B2 EXCEPT !.transactions = << T4, T3 >>]

WriterUpdates ==
    {B1, B2Pair, WithTimestamp(M1, Some(100)), M2}
        \cup {Rollback(id) : id \in RollbackTargets}

Batches == UNION {[1..n -> WriterUpdates] : n \in 1..MaxBatch}

SendBatch(b) ==
    /\ Len(output) < OutputCapacity
    /\ store.blocks_uid_seq < MaxBlocks
    /\ writer_pc = "recv"
    /\ output' = Append(output, b)
    /\ UNCHANGED << batching_params, buffer, last_block_timestamp, last_block_height,
                    last_flush_elapsed, batcher_pc, updates, delayed_update,
                    trace, emitted >>
    /\ UNCHANGED writer_vars
    /\ UNCHANGED source_vars
    /\ UNCHANGED service_vars
    /\ UNCHANGED convert_vars
    /\ UNCHANGED storage_vars

(***************************************************************************)
(* PostgresStorage: the connection in Arc<Mutex<Option<Box<..>>>>, and     *)
(* Storage::transaction called by the holders of clones of the storage     *)
(***************************************************************************)
Callers == 1..MaxCallers

\* PostgresStorage::new: the connection is in the slot, the mutex is free.
PgConnection == "PgConnection"

\* Mutex::lock().unwrap(): None while another holds the lock; a poisoned
\* mutex makes unwrap panic.
lock(mutex, c) ==
    IF mutex.holder # None THEN None
    ELSE IF mutex.poisoned THEN Some([ok |-> FALSE, mutex |-> mutex])
    ELSE Some([ok |-> TRUE, mutex |-> [mutex EXCEPT !.holder = Some(c)]])

\* A faulty variant of put_back: the connection is put back after a commit only.
put_back_on_commit(slot, taken, result) ==
    IF result = "ok" THEN Some(taken) ELSE slot

\* *conn_guard = Some(conn), after conn.transaction returned Ok or Err.
put_back(slot, taken, result) == Some(taken)

\* task::spawn_blocking of the closure of one call of transaction.
Spawn(c) ==
    /\ task[c].pc = "idle"
    /\ task[c].calls < MaxCalls
    /\ task' = [task EXCEPT ![c].pc = "spawned", ![c].calls = @ + 1]
    /\ UNCHANGED << conn, conn_mutex >>
    /\ UNCHANGED << batcher_vars, writer_vars, source_vars, service_vars, convert_vars >>

\* let mut conn_guard = conn_arc.lock().unwrap()
Lock(c) ==
    /\ task[c].pc = "spawned"
    /\ lock(conn_mutex, c) # None
    /\ LET l == lock(conn_mutex, c)[1]
       IN IF ~l.ok
          THEN /\ task' = [task EXCEPT ![c].pc = "panicked", ![c].result = Some("poisoned")]
               /\ UNCHANGED conn_mutex
          ELSE /\ task' = [task EXCEPT ![c].pc = "locked"]
               /\ conn_mutex' = l.mutex
    /\ UNCHANGED conn
    /\ UNCHANGED << batcher_vars, writer_vars, source_vars, service_vars, convert_vars >>

\* conn_guard.take().expect("connection is gone"), then BEGIN.  The panic
\* unwinds through the guard: the mutex is released poisoned.
Take(c) ==
    /\ task[c].pc = "locked"
    /\ IF conn = None
       THEN /\ task' = [task EXCEPT ![c].pc = "panicked",
                                    ![c].result = Some("connection is gone")]
            /\ conn_mutex' = [holder |-> None, poisoned |-> TRUE]
            /\ UNCHANGED conn
       ELSE /\ task' = [task EXCEPT ![c].pc = "transaction"]
            /\ conn' = None
            /\ UNCHANGED conn_mutex
    /\ UNCHANGED << batcher_vars, writer_vars, source_vars, service_vars, convert_vars >>

\* conn.transaction(|conn| f(conn)) ends: COMMIT on Ok, ROLLBACK on Err, and
\* the connection goes back to the slot before the guard is dropped.  A
\* closure that panics drops the connection and poisons the mutex.
Return(c, result) ==
    /\ task[c].pc = "transaction"
    /\ IF result = "panic"
       THEN /\ task' = [task EXCEPT ![c].pc = "panicked", ![c].result = Some("sync task panicked")]
            /\ conn_mutex' = [holder |-> None, poisoned |-> TRUE]
            /\ UNCHANGED conn
       ELSE /\ task' = [task EXCEPT ![c].pc = "idle", ![c].result = Some(result)]
            /\ conn' = put_back(conn, PgConnection, result)
            /\ conn_mutex' = [conn_mutex EXCEPT !.holder = None]
    /\ UNCHANGED << batcher_vars, writer_vars, source_vars, service_vars, convert_vars >>

StorageInit ==
    /\ conn = Some(PgConnection)
    /\ conn_mutex = [holder |-> None, poisoned |-> FALSE]
    /\ task = [c \in Callers |-> [pc |-> "idle", calls |-> 0, result |-> None]]

(***************************************************************************)
(* The read service: service/server.rs and the Repo of service/repo.rs     *)
(***************************************************************************)
MAX_QUERY_LIMIT == 100

\* A String is the sequence of its characters.
Digit(d) == << "0", "1", "2", "3", "4", "5", "6", "7", "8", "9" >>[d + 1]
IsDigit(c) == \E d \in 0..9 : Digit(d) = c
DigitValue(c) == CHOOSE d \in 0..9 : Digit(d) = c

RECURSIVE digits(_)
digits(n) == IF n < 10 THEN << Digit(n) >> ELSE Append(digits(n \div 10), Digit(n % 10))

\* i64::to_string: the decimal digits, after a minus sign when negative.
to_string(n) == IF n < 0 THEN << "-" >> \o digits(0 - n) ELSE digits(n)

RECURSIVE from_digits(_, _)
from_digits(s, acc) ==
    IF s = << >> THEN acc ELSE from_digits(Tail(s), 10 * acc + DigitValue(Head(s)))

\* str::parse::<i64>: an optional sign, then one decimal digit or more and
\* nothing else; None stands for the Err.
parse(s) ==
    LET signed == s # << >> /\ s[1] \in {"+", "-"}
        body == IF signed THEN Tail(s) ELSE s
    IN IF body = << >> \/ \E i \in 1..Len(body) : ~IsDigit(body[i])
       THEN None
       ELSE IF signed /\ s[1] = "-"
            THEN Some(0 - from_digits(body, 0))
            ELSE Some(from_digits(body, 0))

\* service::repo::Page and Operation.
Page(start, limit) == [start |-> start, limit |-> limit]
Operation(row) == [tx_uid |-> row.uid, body |-> row.operation]

\* ORDER BY uid LIMIT n: the n rows of the smallest uids, ascending.
order_limit(rows, n) ==
    LET smaller == [r \in rows |-> Cardinality({q \in rows : q.uid < r.uid})]
        len == IF Cardinality(rows) < n THEN Cardinality(rows) ELSE n
    IN [i \in 1..len |-> Operation(CHOOSE r \in rows : smaller[r] = i - 1)]

Fetched(items, next) == [items |-> items, next |-> next]

\* A faulty variant of fetch_operations: the rows after the cursor are selected, not
\* the row of the cursor.
fetch_operations_after_start(st, op_types, sender, page) ==
    LET matching ==
            {t \in st.transactions :
                /\ (op_types # None /\ op_types[1] # << >>)
                      => \E i \in 1..Len(op_types[1]) : op_types[1][i] = t.op_type
                /\ sender # None => t.sender = sender[1]
                /\ page.start # None => t.uid > page.start[1]}
        res == order_limit(matching, page.limit + 1)
    IN IF Len(res) > page.limit
       THEN Fetched(SubSeq(res, 1, Len(res) - 1), Some(Last(res).tx_uid))
       ELSE Fetched(res, None)

\* PgRepo::fetch_operations, when the database answers.
fetch_operations(st, op_types, sender, page) ==
    LET matching ==
            {t \in st.transactions :
                /\ (op_types # None /\ op_types[1] # << >>)
                      => \E i \in 1..Len(op_types[1]) : op_types[1][i] = t.op_type
                /\ sender # None => t.sender = sender[1]
                /\ page.start # None => t.uid >= page.start[1]}
        res == order_limit(matching, page.limit + 1)
    IN IF Len(res) > page.limit
       THEN Fetched(SubSeq(res, 1, Len(res) - 1), Some(Last(res).tx_uid))
       ELSE Fetched(res, None)

\* GetOperationsError::status_code.
status_code(error) ==
    CASE error = "InvalidAfter" -> 400
      [] error = "InvalidLimit" -> 400
      [] error = "ServerError" -> 500

OperationsQuery(sender, types, limit, after) ==
    [sender |-> sender, types |-> types, limit |-> limit, after |-> after]

\* The reply of the endpoint; page is the Page handed to the Repo, None when
\* the Repo was not called.
Rejected(error, page) ==
    [status |-> status_code(error), error |-> Some(error), items |-> << >>,
     page_info |-> [has_next_page |-> FALSE, last_cursor |-> None], page |-> page]

OperationsResponse(list, next, page) ==
    [status |-> 200, error |-> None, items |-> list,
     page_info |-> [has_next_page |-> next # None,
                    last_cursor |-> IF next = None THEN None ELSE Some(to_string(next[1]))],
     page |-> page]

\* A faulty variant of get_operations_handler: the limit is not checked.
get_operations_handler_any_limit(st, q, fail) ==
    IF q.after # None /\ parse(q.after[1]) = None
    THEN Rejected("InvalidAfter", None)
    ELSE LET start == IF q.after = None THEN None ELSE parse(q.after[1])
             page == Page(start, unwrap_or(q.limit, MAX_QUERY_LIMIT))
             fetched == fetch_operations(st, q.types, q.sender, page)
         IN IF fail THEN Rejected("ServerError", Some(page))
            ELSE OperationsResponse(fetched.items, fetched.next, Some(page))

\* Server::get_operations_handler with error_handler; fail: the Repo returns
\* an error.
get_operations_handler(st, q, fail) ==
    IF q.limit # None /\ q.limit[1] > MAX_QUERY_LIMIT
    THEN Rejected("InvalidLimit", None)
    ELSE IF q.after # None /\ parse(q.after[1]) = None
    THEN Rejected("InvalidAfter", None)
    ELSE LET start == IF q.after = None THEN None ELSE parse(q.after[1])
             page == Page(start, unwrap_or(q.limit, MAX_QUERY_LIMIT))
             fetched == fetch_operations(st, q.types, q.sender, page)
         IN IF fail THEN Rejected("ServerError", Some(page))
            ELSE OperationsResponse(fetched.items, fetched.next, Some(page))

\* The queries of the model: each parameter absent or present, limits up to
\* MaxLimit and on both sides of the maximum, cursors up to MaxCursorLen
\* characters.
CursorChars == {"0", "1", "+", "-", "x"}
Cursors == UNION {[1..n -> CursorChars] : n \in 0..MaxCursorLen}

Queries ==
    {OperationsQuery(sender, types, limit, after) :
        sender \in {None, Some("alice"), Some("bob")},
        types \in {None, Some(<< >>), Some(<< "invoke_script" >>)},
        limit \in {None} \cup {Some(n) : n \in (0..MaxLimit)
                                    \cup {MAX_QUERY_LIMIT, MAX_QUERY_LIMIT + 1}},
        after \in {None} \cup {Some(c) : c \in Cursors}}

\* A client sends a request, which starts a listing.
GetOperations(q, fail) ==
    /\ query' = Some(q)
    /\ reply' = Some(get_operations_handler(store, q, fail))
    /\ listed' = [first |-> Some(q), items |-> reply'[1].items]
    /\ UNCHANGED << batcher_vars, writer_vars, source_vars, convert_vars >>
    /\ UNCHANGED storage_vars

\* The client repeats the request with after = last_cursor of the reply.
NextPage(fail) ==
    /\ reply # None
    /\ reply[1].page_info.has_next_page
    /\ LET q == [query[1] EXCEPT !.after = reply[1].page_info.last_cursor]
       IN /\ query' = Some(q)
          /\ reply' = Some(get_operations_handler(store, q, fail))
          /\ listed' = [listed EXCEPT !.items = @ \o reply'[1].items]
    /\ UNCHANGED << batcher_vars, writer_vars, source_vars, convert_vars >>
    /\ UNCHANGED storage_vars

ServiceInit ==
    /\ query = None
    /\ reply = None
    /\ listed = [first |-> None, items |-> << >>]

\* The tables the service reads: one block and transactions of some of the
\* uids up to MaxRows, or of every uid up to two past the maximal limit.
ServiceRow(uid) ==
    LET id == << "t" >> \o to_string(uid)
        sender == IF uid % 2 = 1 THEN "alice" ELSE "bob"
    IN [uid |-> uid, id |-> id, block_uid |-> 1, sender |-> sender, tx_type |-> 16,
        op_type |-> "invoke_script", operation |-> Transaction(id, sender, 16)]

ServiceStore(uids, seq) ==
    [blocks_microblocks |-> {[uid |-> 1, id |-> "b1", height |-> 1, time_stamp |-> 100]},
     transactions |-> {ServiceRow(uid) : uid \in uids},
     blocks_uid_seq |-> 1, transactions_uid_seq |-> seq]

ServiceStores ==
    {ServiceStore(uids, MaxRows) : uids \in SUBSET (1..MaxRows)}
        \cup {ServiceStore(1..(MAX_QUERY_LIMIT + 2), MAX_QUERY_LIMIT + 2)}

(***************************************************************************)
(* Normalization of the upstream updates: updates.rs, mod convert          *)
(***************************************************************************)
\* Result<T, ConvertError>, and the panic of an assertion.
Converted(value) == [status |-> "ok", value |-> value, error |-> None]
ConvertError(message) == [status |-> "err", value |-> None, error |-> Some(message)]
ConvertPanic(message) == [status |-> "panic", value |-> None, error |-> Some(message)]

\* bs58::encode: a '1' for each leading zero byte, then the digits in base 58
\* of the big-endian number the bytes spell.
Base58Alphabet ==
    << "1", "2", "3", "4", "5", "6", "7", "8", "9", "A", "B", "C", "D", "E", "F", "G",
       "H", "J", "K", "L", "M", "N", "P", "Q", "R", "S", "T", "U", "V", "W", "X", "Y",
       "Z", "a", "b", "c", "d", "e", "f", "g", "h", "i", "j", "k", "m", "n", "o", "p",
       "q", "r", "s", "t", "u", "v", "w", "x", "y", "z" >>

RECURSIVE leading_zeros(_)
leading_zeros(bytes) ==
    IF bytes # << >> /\ Head(bytes) = 0
    THEN << Base58Alphabet[1] >> \o leading_zeros(Tail(bytes))
    ELSE << >>

RECURSIVE big_endian(_, _)
big_endian(bytes, acc) ==
    IF bytes = << >> THEN acc ELSE big_endian(Tail(bytes), 256 * acc + Head(bytes))

RECURSIVE base58_digits(_)
base58_digits(n) ==
    IF n = 0 THEN << >>
    ELSE Append(base58_digits(n \div 58), Base58Alphabet[(n % 58) + 1])

base58(bytes) == leading_zeros(bytes) \o base58_digits(big_endian(bytes, 0))

\* The upstream wire schema (waves_protobuf_schemas), as far as convert reads it.
InvokeScriptMetadata(payments, arguments) ==
    [d_app_address |-> << 8 >>, function_name |-> "call", payments |-> payments,
     arguments |-> arguments]

MetadataInvokeScript(meta) == [kind |-> "InvokeScript", meta |-> meta]
MetadataTransfer == [kind |-> "Transfer"]
ActionInvoke(meta) == [kind |-> "Invoke", meta |-> meta]
ActionTransfer == [kind |-> "Transfer"]
EthereumMetadata(action) ==
    [kind |-> "Ethereum", action |-> action, fee |-> 3, timestamp |-> 1,
     sender_public_key |-> << 7 >>]

TransactionMetadata(metadata) == [sender_address |-> << 9 >>, metadata |-> metadata]

InvokeScriptTransactionData(payments) == [kind |-> "InvokeScript", payments |-> payments]
TransferTransactionData == [kind |-> "Transfer"]
WavesTransaction(data, fee) ==
    [kind |-> "WavesTransaction", data |-> data, fee |-> fee, timestamp |-> 1,
     sender_public_key |-> << 7 >>]
EthereumTransaction == [kind |-> "EthereumTransaction"]

SignedTransaction(transaction) == [transaction |-> transaction, proofs |-> << >>]

\* extract_op_type and extract_tx_type.
IsNativeInvoke(meta) == meta.metadata # None /\ meta.metadata[1].kind = "InvokeScript"

IsForeignInvoke(meta) ==
    /\ meta.metadata # None
    /\ meta.metadata[1].kind = "Ethereum"
    /\ meta.metadata[1].action # None
    /\ meta.metadata[1].action[1].kind = "Invoke"

extract_op_type(meta) ==
    IF IsNativeInvoke(meta) THEN Some("invoke_script")
    ELSE IF IsForeignInvoke(meta) THEN Some("invoke_script")
    ELSE None

extract_tx_type(meta) ==
    IF IsNativeInvoke(meta) THEN Some(16)
    ELSE IF IsForeignInvoke(meta) THEN Some(18)
    ELSE None

extract_transaction_data(tx, meta) ==
    IF tx.transaction # None /\ tx.transaction[1].kind = "WavesTransaction"
    THEN Some([kind |-> "Waves", data |-> tx.transaction[1]])
    ELSE IF /\ tx.transaction # None
            /\ tx.transaction[1].kind = "EthereumTransaction"
            /\ meta.metadata # None
            /\ meta.metadata[1].kind = "Ethereum"
    THEN Some([kind |-> "Ethereum", data |-> meta.metadata[1]])
    ELSE None

InvokeScriptData(waves_data, meta) == [waves_data |-> waves_data, meta |-> meta]

extract_invoke_script_data(tx, meta) ==
    LET t == tx.transaction
    IN IF t # None /\ t[1].kind = "WavesTransaction"
             /\ ~(t[1].data # None /\ t[1].data[1].kind = "InvokeScript")
       THEN ConvertError("unexpected InvokeScript transaction contents")
       ELSE IF t = None
       THEN ConvertError("unexpected InvokeScript transaction contents")
       ELSE LET waves_data == IF t[1].kind = "WavesTransaction" THEN t[1].data ELSE None
            IN IF IsNativeInvoke(meta)
               THEN Converted(InvokeScriptData(waves_data, meta.metadata[1].meta))
               ELSE IF IsForeignInvoke(meta)
               THEN Converted(InvokeScriptData(waves_data, meta.metadata[1].action[1].meta))
               ELSE ConvertError("unexpected InvokeScript metadata contents")

\* TransactionData::get_fee.
get_fee(tx_data) ==
    IF tx_data.kind = "Waves" THEN tx_data.data.fee ELSE Some(tx_data.data.fee)

\* InvokeScriptData::get_payments, with its assert_eq.
get_payments(data) ==
    IF data.waves_data # None
    THEN IF data.waves_data[1].payments = data.meta.payments
         THEN Converted(data.waves_data[1].payments)
         ELSE ConvertPanic("assertion failed: data.payments == self.meta.payments")
    ELSE Converted(data.meta.payments)

\* InvokeScriptData::get_call: an argument without value is an error.
get_call(data) ==
    IF \E i \in 1..Len(data.meta.arguments) : data.meta.arguments[i] = None
    THEN ConvertError("missing argument")
    ELSE Converted(data.meta.arguments)

\* convert_tx; its value is Some(Transaction), or None for a skipped one.
convert_tx(id, tx, meta, block_info) ==
    IF extract_op_type(meta) = None THEN Converted(None)
    ELSE IF extract_tx_type(meta) = None THEN ConvertError("missing tx type")
    ELSE IF extract_transaction_data(tx, meta) = None THEN ConvertError("missing tx data")
    ELSE LET tx_type == extract_tx_type(meta)[1]
             tx_data == extract_transaction_data(tx, meta)[1]
             invoke_script_data == extract_invoke_script_data(tx, meta)
         IN IF invoke_script_data.status # "ok" THEN invoke_script_data
            ELSE IF get_fee(tx_data) = None THEN ConvertError("fee")
            ELSE IF get_payments(invoke_script_data.value).status # "ok"
            THEN get_payments(invoke_script_data.value)
            ELSE IF get_call(invoke_script_data.value).status # "ok"
            THEN get_call(invoke_script_data.value)
            ELSE Converted(Some(Transaction(base58(id), base58(meta.sender_address),
                                            tx_type)))

\* A faulty variant of convert_transactions: a transaction that is not an invocation
\* is an error.
RECURSIVE convert_transactions_strict(_, _, _, _)
convert_transactions_strict(transaction_ids, transactions, transactions_metadata, block_info) ==
    IF transaction_ids = << >> \/ transactions = << >> \/ transactions_metadata = << >>
    THEN Converted(<< >>)
    ELSE LET tx == convert_tx(Head(transaction_ids), Head(transactions),
                              Head(transactions_metadata), block_info)
         IN IF tx.status # "ok" THEN tx
            ELSE IF tx.value = None THEN ConvertError("missing tx type")
            ELSE LET rest == convert_transactions_strict(Tail(transaction_ids),
                                 Tail(transactions), Tail(transactions_metadata), block_info)
                 IN IF rest.status # "ok" THEN rest
                    ELSE Converted(tx.value \o rest.value)

\* convert_transactions: zip, filter_map and collect, which stops at the
\* first error.
RECURSIVE convert_transactions(_, _, _, _)
convert_transactions(transaction_ids, transactions, transactions_metadata, block_info) ==
    IF transaction_ids = << >> \/ transactions = << >> \/ transactions_metadata = << >>
    THEN Converted(<< >>)
    ELSE LET tx == convert_tx(Head(transaction_ids), Head(transactions),
                              Head(transactions_metadata), block_info)
         IN IF tx.status # "ok" THEN tx
            ELSE LET rest == convert_transactions(Tail(transaction_ids),
                                 Tail(transactions), Tail(transactions_metadata), block_info)
                 IN IF rest.status # "ok" THEN rest
                    ELSE Converted(tx.value \o rest.value)

\* The bodies of an Append.
Block(header, transactions) ==
    [kind |-> "Block", block |-> Some([header |-> header, transactions |-> transactions])]
BlockEmpty == [kind |-> "Block", block |-> None]
MicroBlock(transactions) ==
    [kind |-> "MicroBlock",
     micro_block |-> Some([total_block_id |-> << 0, 12 >>,
                           micro_block |-> Some([transactions |-> transactions])])]
MicroBlockUnsigned ==
    [kind |-> "MicroBlock",
     micro_block |-> Some([total_block_id |-> << 0, 12 >>, micro_block |-> None])]
MicroBlockEmpty == [kind |-> "MicroBlock", micro_block |-> None]

UpdateAppend(body, transaction_ids, transactions_metadata) ==
    [kind |-> "Append", body |-> body, transaction_ids |-> transaction_ids,
     transactions_metadata |-> transactions_metadata]
UpdateRollback == [kind |-> "Rollback"]

BlockchainUpdated(id, height, update) == [id |-> id, height |-> height, update |-> update]

extract_is_microblock(body) ==
    IF body.kind = "Block" /\ body.block # None THEN Some(FALSE)
    ELSE IF body.kind = "MicroBlock" /\ body.micro_block # None THEN Some(TRUE)
    ELSE None

extract_id(body, block_id) ==
    IF body.kind = "Block" THEN Some(block_id)
    ELSE IF body.kind = "MicroBlock" /\ body.micro_block # None
    THEN Some(body.micro_block[1].total_block_id)
    ELSE None

extract_timestamp(body) ==
    IF body.kind = "Block" /\ body.block # None /\ body.block[1].header # None
    THEN Some(body.block[1].header[1].timestamp)
    ELSE None

extract_transactions(body) ==
    IF body.kind = "Block" /\ body.block # None THEN Some(body.block[1].transactions)
    ELSE IF /\ body.kind = "MicroBlock"
            /\ body.micro_block # None
            /\ body.micro_block[1].micro_block # None
    THEN Some(body.micro_block[1].micro_block[1].transactions)
    ELSE None

convert_update(upstream) ==
    IF upstream.update = None THEN ConvertError("failed to parse blockchain update")
    ELSE IF upstream.update[1].kind = "Rollback"
    THEN Converted(Rollback(base58(upstream.id)))
    ELSE LET append == upstream.update[1]
         IN IF append.body = None THEN ConvertError("append body is None")
            ELSE IF extract_is_microblock(append.body[1]) = None
            THEN ConvertError("failed to extract is_microblock")
            ELSE IF extract_id(append.body[1], upstream.id) = None
            THEN ConvertError("failed to extract block id")
            ELSE IF extract_transactions(append.body[1]) = None
            THEN ConvertError("transactions is None")
            ELSE LET body == append.body[1]
                     transactions == extract_transactions(body)[1]
                     block_info == [height |-> upstream.height,
                                    timestamp |-> extract_timestamp(body)]
                     converted_txs ==
                         convert_transactions(append.transaction_ids, transactions,
                                              append.transactions_metadata, block_info)
                 IN IF ~(Len(append.transaction_ids) = Len(transactions)
                           /\ Len(transactions) = Len(append.transactions_metadata))
                    THEN ConvertPanic("assertion failed: lengths")
                    ELSE IF converted_txs.status # "ok" THEN converted_txs
                    ELSE Converted(AppendBlock(base58(extract_id(body, upstream.id)[1]),
                                               upstream.height, extract_timestamp(body),
                                               extract_is_microblock(body)[1],
                                               converted_txs.value))

\* The transactions and metadata of the model: each shape convert tells
\* apart, with payments that agree or not, a fee and an argument value
\* present or not.
Payments == {<< >>, << 5 >>}

SignedTransactions ==
    {SignedTransaction(None), SignedTransaction(Some(EthereumTransaction)),
     SignedTransaction(Some(WavesTransaction(None, Some(1)))),
     SignedTransaction(Some(WavesTransaction(Some(TransferTransactionData), Some(1)))),
     SignedTransaction(Some(WavesTransaction(Some(InvokeScriptTransactionData(<< >>)), None)))}
        \cup {SignedTransaction(Some(WavesTransaction(Some(InvokeScriptTransactionData(p)),
                                                      Some(1)))) : p \in Payments}

InvokeScriptMetadatas ==
    {InvokeScriptMetadata(<< 5 >>, << Some(1) >>), InvokeScriptMetadata(<< >>, << None >>)}

TransactionMetadatas ==
    {TransactionMetadata(None), TransactionMetadata(Some(MetadataTransfer)),
     TransactionMetadata(Some(EthereumMetadata(None))),
     TransactionMetadata(Some(EthereumMetadata(Some(ActionTransfer))))}
        \cup {TransactionMetadata(Some(MetadataInvokeScript(m))) : m \in InvokeScriptMetadatas}
        \cup {TransactionMetadata(Some(EthereumMetadata(Some(ActionInvoke(m))))) :
                 m \in InvokeScriptMetadatas}

\* The id of the n-th transaction of a block.
TransactionIds(n) == [i \in 1..n |-> << i >>]

Bodies(txs) == {Block(Some([timestamp |-> 100]), txs), Block(None, txs), MicroBlock(txs)}

\* An Append whose lists differ in length.
Unequal ==
    UpdateAppend(Some(Block(Some([timestamp |-> 100]), << SignedTransaction(None) >>)),
                 TransactionIds(1), << >>)

\* The updates that are not an Append of a block or microblock with its lists.
Upstream ==
    {BlockchainUpdated(<< 11 >>, 1, update) :
        update \in {None, Some(UpdateRollback), Some(Unequal),
                    Some(UpdateAppend(None, << >>, << >>)),
                    Some(UpdateAppend(Some(BlockEmpty), << >>, << >>)),
                    Some(UpdateAppend(Some(MicroBlockEmpty), << >>, << >>)),
                    Some(UpdateAppend(Some(MicroBlockUnsigned), << >>, << >>))}}

\* pump_messages hands the update of an event to convert_update.
Convert ==
    /\ converted = None
    /\ converted' = Some(convert_update(src[1]))
    /\ UNCHANGED src
    /\ UNCHANGED << batcher_vars, writer_vars, source_vars, service_vars >>
    /\ UNCHANGED storage_vars

ConvertInit ==
    /\ src = None
    /\ converted = None

(***************************************************************************)
(* Specifications                                                          *)
(***************************************************************************)
\* The Source left out: the Batcher is handed its updates directly.
SourceInit == stream = << >> /\ input = << >> /\ source_pc = "pump"

\* The Batcher, with a receiver that takes every batch.
Init ==
    BatcherInit /\ WriterInit /\ SourceInit /\ ServiceInit /\ ConvertInit /\ StorageInit

Next ==
    \/ Tick
    \/ \E update \in Updates : BatcherRecv(update)
    \/ BatcherSend
    \/ OutputRecv

Spec == Init /\ [][Next]_vars

\* The Writer, with a sender of arbitrary batches.
WriterSpecInit ==
    /\ BatcherInit
    /\ batching_params = [max_updates |-> None, max_delay |-> None]
    /\ WriterInit
    /\ SourceInit
    /\ ServiceInit
    /\ ConvertInit
    /\ StorageInit

WriterNext ==
    \/ \E b \in Batches : SendBatch(b)
    \/ WriterRecv
    \/ WriteUpdate
    \/ WriterCommit
    \/ WriterAbort

SpecWriter == WriterSpecInit /\ [][WriterNext]_vars

\* The whole consumer: the Batcher feeding the Writer through the channel,
\* in a run that lasts less than one tick of the clock.
PipelineNext ==
    \/ \E update \in Updates : BatcherRecv(update)
    \/ BatcherSend
    \/ WriterRecv
    \/ WriteUpdate
    \/ WriterCommit
    \/ WriterAbort

SpecPipeline == Init /\ [][PipelineNext]_vars

\* The start of consumer::run on a database left by earlier runs.
BootstrapInit ==
    /\ BatcherInit
    /\ batching_params = [max_updates |-> None, max_delay |-> None]
    /\ writer_pc = "init"
    /\ batch = << >>
    /\ applied = 0
    /\ store \in BootStores
    /\ snapshot = None
    /\ last_height = None
    /\ before_batch = store
    /\ start_rollback_depth \in 0..MaxDepth
    /\ config_starting_height \in {default_starting_height, 1}
    /\ starting_height = None
    /\ SourceInit
    /\ ServiceInit
    /\ ConvertInit
    /\ StorageInit

BootstrapNext == \E fail_at \in 0..2 : Bootstrap(fail_at)

SpecBootstrap == BootstrapInit /\ [][BootstrapNext]_vars

\* The Source feeding the Batcher through its channel, with a receiver that
\* takes every batch.  The upstream delivers one of these streams: a block
\* and its microblocks; two blocks, a rollback to the first and microblocks
\* on it; a rollback to a block stored earlier, then the next block and its
\* microblocks.
StreamLen == InputCapacity + MaxInputs + 1

Microblocks(n) == IF n % 2 = 0 THEN M1 ELSE M2

Streams ==
    { [n \in 1..StreamLen |-> IF n = 1 THEN B1 ELSE Microblocks(n)],
      [n \in 1..StreamLen |-> CASE n = 1 -> B1
                                [] n = 2 -> B2
                                [] n = 3 -> Rollback("b1")
                                [] OTHER -> Microblocks(n)],
      [n \in 1..StreamLen |-> CASE n = 1 -> Rollback("b2")
                                [] n = 2 -> B1
                                [] OTHER -> Microblocks(n)] }

SourceSpecInit ==
    /\ BatcherInit
    /\ WriterInit
    /\ stream \in Streams
    /\ input = << >>
    /\ source_pc = "pump"
    /\ ServiceInit
    /\ ConvertInit
    /\ StorageInit

SourceNext ==
    \/ Tick
    \/ pump_messages
    \/ InputRecv
    \/ BatcherSend
    \/ OutputRecv

SpecSource == SourceSpecInit /\ [][SourceNext]_vars

\* The read service over a table that no one writes.
ServiceSpecInit ==
    /\ BatcherInit
    /\ batching_params = [max_updates |-> None, max_delay |-> None]
    /\ writer_pc = "recv"
    /\ batch = << >>
    /\ applied = 0
    /\ store \in ServiceStores
    /\ snapshot = None
    /\ last_height = None
    /\ before_batch = store
    /\ start_rollback_depth = 1
    /\ config_starting_height = default_starting_height
    /\ starting_height = Some(config_starting_height)
    /\ SourceInit
    /\ ServiceInit
    /\ ConvertInit
    /\ StorageInit

\* The handler keeps nothing between requests, so one listing for each run
\* covers them all.
FirstRequest ==
    /\ reply = None
    /\ \E q \in Queries, fail \in BOOLEAN : GetOperations(q, fail)

ServiceNext ==
    \/ FirstRequest
    \/ \E fail \in BOOLEAN : NextPage(fail)

SpecService == ServiceSpecInit /\ [][ServiceNext]_vars

\* The normalization of one update of the upstream.
ConvertSpecInit ==
    /\ BatcherInit
    /\ batching_params = [max_updates |-> None, max_delay |-> None]
    /\ WriterInit
    /\ SourceInit
    /\ ServiceInit
    /\ \/ \E u \in Upstream : src = Some(u)
       \/ \E n \in 0..MaxTxs :
             \E txs \in [1..n -> SignedTransactions], met \in [1..n -> TransactionMetadatas] :
                \E body \in Bodies(txs) :
                   src = Some(BlockchainUpdated(<< 11 >>, 1,
                              Some(UpdateAppend(Some(body), TransactionIds(n), met))))
    /\ converted = None
    /\ StorageInit

ConvertNext == Convert

SpecConvert == ConvertSpecInit /\ [][ConvertNext]_vars

\* A restart followed by streaming: init_db_task on a database left by
\* earlier runs, then the Writer with a sender of arbitrary one-update batches.
RestartNext ==
    \/ \E fail_at \in 0..2 : Bootstrap(fail_at)
    \/ \E update \in WriterUpdates : SendBatch(<< update >>)
    \/ WriterRecv
    \/ WriteUpdate
    \/ WriterCommit
    \/ WriterAbort

SpecRestart == BootstrapInit /\ [][RestartNext]_vars

\* Storage::transaction under the holders of clones of one PostgresStorage.
StorageSpecInit ==
    /\ BatcherInit
    /\ batching_params = [max_updates |-> None, max_delay |-> None]
    /\ WriterInit
    /\ SourceInit
    /\ ServiceInit
    /\ ConvertInit
    /\ StorageInit

StorageNext ==
    \E c \in Callers :
        \/ Spawn(c)
        \/ Lock(c)
        \/ Take(c)
        \/ \E result \in {"ok", "error", "panic"} : Return(c, result)

SpecStorage == StorageSpecInit /\ [][StorageNext]_vars

\* The shutdown of the pipeline: the Source delivers the first updates of a
\* stream and closes its channel at any moment, the Batcher and the Writer
\* run until they end.  The run lasts less than one tick of the clock.
\* One more stream: a block, a rollback to it and microblocks on it.
ReorgStream == [n \in 1..StreamLen |-> CASE n = 1 -> B1
                                         [] n = 2 -> Rollback("b1")
                                         [] OTHER -> Microblocks(n + 1)]

ShutdownStreams ==
    {SubSeq(s, 1, n) : s \in Streams \cup {ReorgStream}, n \in 0..MaxInputs}

ShutdownInit ==
    /\ BatcherInit
    /\ WriterInit
    /\ stream \in ShutdownStreams
    /\ input = << >>
    /\ source_pc = "pump"
    /\ ServiceInit
    /\ ConvertInit
    /\ StorageInit

ShutdownNext ==
    \/ pump_messages
    \/ SourceClose
    \/ InputRecv
    \/ BatcherStop
    \/ BatcherSendToWriter
    \/ BatcherSendFails
    \/ WriterRecv
    \/ WriteUpdate
    \/ WriterCommit
    \/ WriterAbort
    \/ WriterStop

\* The tasks of the Batcher and of the Writer are scheduled whenever they can
\* take a step; nothing makes the Source close.
ShutdownFairness ==
    /\ WF_vars(InputRecv)
    /\ WF_vars(BatcherStop)
    /\ WF_vars(BatcherSendToWriter)
    /\ WF_vars(BatcherSendFails)
    /\ WF_vars(WriterRecv)
    /\ WF_vars(WriteUpdate)
    /\ WF_vars(WriterCommit)
    /\ WF_vars(WriterAbort)
    /\ WF_vars(WriterStop)

SpecShutdown == ShutdownInit /\ [][ShutdownNext]_vars /\ ShutdownFairness

\* The whole consumer fed by the normalizer: every update handed to the
\* Batcher is what convert_update makes of an event of the upstream.  The
\* events are blocks with and without header, microblocks on them and a
\* rollback, none of them with transactions.
UpstreamEvents ==
    {BlockchainUpdated(<< 11 >>, 1,
         Some(UpdateAppend(Some(Block(Some([timestamp |-> 100]), << >>)), << >>, << >>))),
     BlockchainUpdated(<< 12 >>, 2,
         Some(UpdateAppend(Some(Block(None, << >>)), << >>, << >>))),
     BlockchainUpdated(<< 11 >>, 1,
         Some(UpdateAppend(Some(MicroBlock(<< >>)), << >>, << >>))),
     BlockchainUpdated(<< 12 >>, 2,
         Some(UpdateAppend(Some(MicroBlock(<< >>)), << >>, << >>))),
     BlockchainUpdated(<< 11 >>, 1, Some(UpdateRollback))}

\* pump_messages: convert_update, then the update goes to the Batcher.
PumpConverted(event) ==
    /\ convert_update(event).status = "ok"
    /\ BatcherRecv(convert_update(event).value)

NormalizedNext ==
    \/ \E event \in UpstreamEvents : PumpConverted(event)
    \/ BatcherSend
    \/ WriterRecv
    \/ WriteUpdate
    \/ WriterCommit
    \/ WriterAbort

SpecNormalized == Init /\ [][NormalizedNext]_vars

(***************************************************************************)
(* Properties                                                              *)
(***************************************************************************)
\* The parameters of the spec's concrete scenarios: max_updates = 3, no max_delay.
ScenarioParams == [max_updates |-> Some(3), max_delay |-> None]

\* The Batcher has received exactly / at least the updates of s, in order,
\* since it started with an empty buffer.
Received(s) == Len(trace) = Len(s) /\ \A i \in 1..Len(s) : trace[i].update = s[i]
ReceivedFirst(s) == Len(trace) >= Len(s) /\ \A i \in 1..Len(s) : trace[i].update = s[i]

M1ts == WithTimestamp(M1, Some(100))
M2ts == WithTimestamp(M2, Some(100))

\* i is the place in buf of the Append with this block_id closest to the tail.
ClosestToTail(buf, block_id, i) ==
    /\ i \in 1..Len(buf)
    /\ IsAppend(buf[i]) /\ buf[i].block_id = block_id
    /\ \A j \in (i + 1)..Len(buf) : ~(IsAppend(buf[j]) /\ buf[j].block_id = block_id)

HoldsAppend(buf, block_id) ==
    \E i \in 1..Len(buf) : IsAppend(buf[i]) /\ buf[i].block_id = block_id

InSeq(x, s) == \E i \in 1..Len(s) : s[i] = x

\* C1: when Rollback(X) is ingested while the buffer holds an Append with
\* block_id X, push_update leaves the buffer equal to its prefix up to and
\* including the Append X closest to the tail: everything after it is
\* discarded, everything before is kept in order, the Rollback is not added.
C1_RollbackFoldsSuffix ==
    \A k \in 1..Len(trace) :
        LET e == trace[k]
        IN (IsRollback(e.update) /\ HoldsAppend(e.buffer, e.update.block_id))
           => \E i \in 1..Len(e.buffer) :
                 /\ ClosestToTail(e.buffer, e.update.block_id, i)
                 /\ e.pushed = SubSeq(e.buffer, 1, i)

\* C1 witness: a Rollback was folded against a buffer that held its target
\* twice and an update after the later one.
C1_Witness ==
    \E k \in 1..Len(trace) :
        LET e == trace[k]
        IN /\ IsRollback(e.update)
           /\ e.outcome = "absorbed"
           /\ Len(e.pushed) < Len(e.buffer)
           /\ \E i, j \in 1..Len(e.buffer) :
                 /\ i < j
                 /\ ClosestToTail(e.buffer, e.update.block_id, j)
                 /\ IsAppend(e.buffer[i]) /\ e.buffer[i].block_id = e.update.block_id

\* The step of Batcher::run that has just ingested an absorbed Rollback.
AbsorbStep ==
    /\ Len(trace') = Len(trace) + 1
    /\ IsRollback(Last(trace').update)
    /\ Last(trace').outcome = "absorbed"

\* C2 as claimed: the step that ingests an absorbed Rollback never sends a
\* batch, whatever max_updates and max_delay are.
C2_AbsorbNeverFlushes == [][AbsorbStep => ~Last(trace').flush]_vars

\* C2 amended: the step that ingests an absorbed Rollback sends no batch when
\* at least one of max_updates and max_delay is configured, max_updates (if
\* configured) is greater than 1 and max_delay (if configured) has not
\* elapsed since the last flush.
C2_AbsorbFlushesOnlyByParams ==
    [][(/\ AbsorbStep
        /\ batching_params.max_updates # None \/ batching_params.max_delay # None
        /\ \/ batching_params.max_updates = None
           \/ batching_params.max_updates[1] > 1
        /\ \/ batching_params.max_delay = None
           \/ last_flush_elapsed < batching_params.max_delay[1])
       => (~Last(trace').flush /\ batcher_pc' = "recv" /\ output' = output)]_vars

\* C2 witness: an absorbed Rollback that discarded something, under such
\* parameters, with the Batcher back at recv.
C2_Witness ==
    /\ batching_params = ScenarioParams
    /\ batcher_pc = "recv"
    /\ trace # << >>
    /\ Last(trace).outcome = "absorbed"
    /\ Len(Last(trace).pushed) < Len(Last(trace).buffer)
    /\ ~Last(trace).flush

\* C3 as claimed, for a Rollback to a block received earlier that has left the
\* buffer and was followed by another Append: the Rollback clears
\* last_block_height and last_block_timestamp and is pushed at the tail, and
\* the step that ingests the next Append flushes a batch containing it.
EscalatedRollback(k) ==
    /\ k >= 3
    /\ IsRollback(trace[k].update)
    /\ ~HoldsAppend(trace[k].buffer, trace[k].update.block_id)
    /\ IsAppend(trace[k - 1].update) /\ trace[k - 1].outcome = "pushed"
    /\ \E i \in 1..(k - 2) :
          /\ IsAppend(trace[i].update) /\ trace[i].outcome = "pushed"
          /\ trace[i].update.block_id = trace[k].update.block_id

C3_EscalatedRollbackDelivered ==
    \A k \in 1..Len(trace) :
        EscalatedRollback(k)
        => /\ trace[k].pushed = Append(trace[k].buffer, trace[k].update)
           /\ (k = Len(trace)) => (last_block_height = None /\ last_block_timestamp = None)
           /\ \A j \in (k + 1)..Len(trace) :
                 (/\ IsAppend(trace[j].update)
                  /\ \A i \in (k + 1)..(j - 1) : IsRollback(trace[i].update))
                 => (trace[j].flush /\ InSeq(trace[k].update, trace[j].updates))

\* C6 as claimed: after a full block and then a timestamp-less microblock of
\* its height, ingested from an empty buffer, nothing has been flushed and both
\* are in the buffer.
BlockThenMicroblock(k) ==
    /\ k + 1 <= Len(trace)
    /\ trace[k].buffer = << >>
    /\ IsAppend(trace[k].update) /\ ~trace[k].update.is_microblock
    /\ trace[k].update.timestamp # None
    /\ IsAppend(trace[k + 1].update) /\ trace[k + 1].update.is_microblock
    /\ trace[k + 1].update.timestamp = None
    /\ trace[k + 1].update.height = trace[k].update.height

C6_NoFlushAfterMicroblock ==
    \A k \in 1..Len(trace) :
        BlockThenMicroblock(k)
        => /\ ~trace[k].flush /\ ~trace[k + 1].flush
           /\ trace[k + 1].kept =
                << trace[k].update,
                   WithTimestamp(trace[k + 1].update, trace[k].update.timestamp) >>

\* C6 amended: after a full block (h = H, ts = T) and then a timestamp-less
\* microblock (h = H), ingested from an empty buffer, the full block has been
\* flushed in a batch of its own (by the second ingest at the latest) and only
\* the microblock, with timestamp T, stays in the buffer.
C6_BlockFlushedMicroblockKept ==
    \A k \in 1..Len(trace) :
        BlockThenMicroblock(k)
        => /\ trace[k + 1].outcome = "pushed"
           /\ trace[k].flush \/ trace[k + 1].flush
           /\ trace[k].updates \o trace[k + 1].updates = << trace[k].update >>
           /\ trace[k + 1].kept =
                << WithTimestamp(trace[k + 1].update, trace[k].update.timestamp) >>
           /\ (k + 1 = Len(trace) /\ batcher_pc = "recv") => buffer = trace[k + 1].kept

\* C6 witness: block then microblock under the scenario parameters, flush sent.
C6_Witness ==
    /\ batching_params = ScenarioParams
    /\ Received(<< B1, M1 >>)
    /\ batcher_pc = "recv"
    /\ emitted = << << B1 >> >>
    /\ buffer = << M1ts >>

\* C7 as claimed: for A(b1), A(m1), A(m2), Rollback(m1) the Rollback is
\* absorbed in memory: m2 is discarded from the buffer, was never sent to the
\* Writer, and no Rollback is in the buffer or in any emitted batch.
C7_MicroblockReplacementAbsorbed ==
    ReceivedFirst(<< B1, M1, M2, Rollback("m1") >>)
    => /\ trace[4].outcome = "absorbed"
       /\ ~InSeq(M2ts, trace[4].pushed)
       /\ \A k \in 1..4 : ~InSeq(M2ts, trace[k].updates)
       /\ \A k \in 1..4 : \A i \in 1..Len(trace[k].updates) : ~IsRollback(trace[k].updates[i])
       /\ \A i \in 1..Len(trace[4].pushed) : ~IsRollback(trace[4].pushed[i])

\* C8 as claimed: with max_updates = 3 and no max_delay, A(b1), A(m1), A(b2)
\* produce one batch, [A(b1), A(m1 @100), A(b2)], at the third event, and
\* leave the buffer empty.
C8_OneBatchOfThree ==
    (batching_params = ScenarioParams /\ ReceivedFirst(<< B1, M1, B2 >>))
    => /\ ~trace[1].flush /\ ~trace[2].flush
       /\ trace[3].flush
       /\ trace[3].updates = << B1, M1ts, B2 >>
       /\ trace[3].kept = << >>

\* C8 amended: with max_updates = 3 and no max_delay, A(b1), A(m1), A(b2)
\* produce exactly one batch, [A(b1)], emitted at the second event; the third
\* event flushes nothing and leaves the buffer [A(m1 @100), A(b2)].
C8_BlockFlushedAtMicroblock ==
    (batching_params = ScenarioParams /\ ReceivedFirst(<< B1, M1, B2 >>))
    => /\ ~trace[1].flush
       /\ trace[2].flush /\ trace[2].updates = << B1 >> /\ trace[2].kept = << M1ts >>
       /\ ~trace[3].flush
       /\ trace[3].kept = << M1ts, B2 >>
       /\ Len(trace) = 3 => /\ batcher_pc = "recv"
                            /\ emitted = << << B1 >> >>
                            /\ buffer = << M1ts, B2 >>

C8_Witness ==
    /\ batching_params = ScenarioParams
    /\ Received(<< B1, M1, B2 >>)
    /\ emitted = << << B1 >> >>
    /\ buffer = << M1ts, B2 >>

\* C9 as claimed: with max_updates = 3 and no max_delay, A(b1), A(m1),
\* Rollback(b1) end with the Rollback folded in memory: the buffer is [A(b1)],
\* none of the three events flushed, and no Rollback is left for the Writer.
C9_RollbackToParentAbsorbed ==
    (batching_params = ScenarioParams /\ ReceivedFirst(<< B1, M1, Rollback("b1") >>))
    => /\ \A k \in 1..3 : ~trace[k].flush
       /\ trace[3].outcome = "absorbed"
       /\ trace[3].kept = << B1 >>

\* C10 as claimed: with max_updates = 3 and no max_delay, A(b1), A(m1), A(m2)
\* produce a single flush, at the third event, of [A(b1), A(m1)], leaving the
\* buffer [A(m2)].
C10_SingleFlushAtThird ==
    (batching_params = ScenarioParams /\ ReceivedFirst(<< B1, M1, M2 >>))
    => /\ ~trace[1].flush /\ ~trace[2].flush
       /\ trace[3].flush
       /\ trace[3].updates = << B1, M1ts >>
       /\ trace[3].kept = << M2ts >>

\* C10 amended: with max_updates = 3 and no max_delay, A(b1), A(m1), A(m2)
\* produce two flushes: [A(b1)] at the second event and [A(m1)] at the third,
\* leaving the buffer [A(m2)].
C10_FlushAtEachMicroblock ==
    (batching_params = ScenarioParams /\ ReceivedFirst(<< B1, M1, M2 >>))
    => /\ ~trace[1].flush
       /\ trace[2].flush /\ trace[2].updates = << B1 >> /\ trace[2].kept = << M1ts >>
       /\ trace[3].flush /\ trace[3].updates = << M1ts >> /\ trace[3].kept = << M2ts >>
       /\ (Len(trace) = 3 /\ batcher_pc = "recv")
          => (emitted = << << B1 >>, << M1ts >> >> /\ buffer = << M2ts >>)

C10_Witness ==
    /\ batching_params = ScenarioParams
    /\ Received(<< B1, M1, M2 >>)
    /\ batcher_pc = "recv"
    /\ emitted = << << B1 >>, << M1ts >> >>
    /\ buffer = << M2ts >>

\* C4: once the store transaction of a batch has aborted on a store error, the
\* tables are those of before the batch: no row of the batch is there and no
\* row it deleted is missing; while the transaction is open, or left open by a
\* panic, what is persisted is still the state before the batch.
C4_AbortRestoresStore ==
    /\ writer_pc = "failed" => (snapshot = None /\ Rows(store) = Rows(before_batch))
    /\ writer_pc \in {"write", "abort", "panicked"} => Persisted = Rows(before_batch)

\* C4 witness: an aborted transaction that had inserted a block row and had
\* deleted a block row before the store error.
C4_Witness ==
    /\ writer_pc = "failed"
    /\ applied >= 1
    /\ store.blocks_uid_seq > before_batch.blocks_uid_seq
    /\ \E id \in RollbackTargets : InSeq(Rollback(id), SubSeq(batch, 1, applied))

\* C5: a step of the Writer that applies Rollback(X) removes exactly the block
\* rows with uid greater than uid(X), keeping the row of X and every row with a
\* smaller uid; and the batch [Append(b1, [t1]), Rollback(b1)] committed on an
\* empty store leaves exactly block b1 and transaction t1.
RollbackApplied ==
    /\ writer_pc = "write"
    /\ applied' = applied + 1
    /\ IsRollback(batch[applied + 1])

C5_RollbackStep ==
    RollbackApplied
    => \E x \in store.blocks_microblocks :
          /\ x.id = batch[applied + 1].block_id
          /\ store'.blocks_microblocks = {b \in store.blocks_microblocks : b.uid <= x.uid}
          /\ x \in store'.blocks_microblocks

C5_Scenario ==
    (/\ writer_pc = "recv"
     /\ batch = << B1, Rollback("b1") >>
     /\ Rows(before_batch) = Rows(EmptyStore))
    => \E b \in store.blocks_microblocks : \E t \in store.transactions :
          /\ store.blocks_microblocks = {b}
          /\ store.transactions = {t}
          /\ b.id = "b1" /\ b.height = 1 /\ b.time_stamp = 100
          /\ t.id = "t1" /\ t.block_uid = b.uid

C5_RollbackToBlock == [][C5_RollbackStep /\ C5_Scenario']_vars

\* C5 witness: a committed Rollback(b1) that removed a later block row and
\* kept the row of b1.
C5_Witness ==
    /\ writer_pc = "recv"
    /\ batch = << Rollback("b1") >>
    /\ \E b \in store.blocks_microblocks : b.id = "b1"
    /\ Cardinality(store.blocks_microblocks) < Cardinality(before_batch.blocks_microblocks)

\* The number of Rollbacks in a buffer.
Rollbacks(buf) == Cardinality({i \in 1..Len(buf) : IsRollback(buf[i])})

TimestamplessMicroblock(u) == IsAppend(u) /\ u.is_microblock /\ u.timestamp = None

\* C12: no batch sent by the Batcher, and nothing it holds for a later batch,
\* contains a microblock Append without a timestamp: push_update patches the
\* timestamp or panics before the update is buffered.
C12_NoTimestamplessMicroblockEmitted ==
    /\ \A b \in 1..Len(emitted) : \A i \in 1..Len(emitted[b]) :
          ~TimestamplessMicroblock(emitted[b][i])
    /\ \A i \in 1..Len(updates) : ~TimestamplessMicroblock(updates[i])
    /\ \A i \in 1..Len(buffer) : ~TimestamplessMicroblock(buffer[i])
    /\ \A k \in 1..Len(trace) :
          (trace[k].outcome = "panic") => (trace[k].pushed = trace[k].buffer)

\* C12 witness: a batch was sent that holds a microblock received without a
\* timestamp, and a later timestamp-less microblock made push_update panic.
C12_Witness ==
    /\ \E b \in 1..Len(emitted) : InSeq(M1ts, emitted[b])
    /\ \E k \in 1..Len(trace) : trace[k].update = M1 /\ trace[k].outcome = "pushed"
    /\ batcher_pc = "panicked"
    /\ TimestamplessMicroblock(Last(trace).update)

\* The step of Batcher::run that receives a timestamp-less microblock at the
\* height of the last known block, whose timestamp is known.
MicroblockAtLastHeight ==
    /\ Len(trace') = Len(trace) + 1
    /\ TimestamplessMicroblock(Last(trace').update)
    /\ last_block_height = Some(Last(trace').update.height)
    /\ last_block_timestamp # None

\* T is the timestamp of the last full block received at height h.
LastFullBlockTimestamp(h, T) ==
    \E k \in 1..Len(trace) :
        /\ IsAppend(trace[k].update) /\ ~trace[k].update.is_microblock
        /\ trace[k].update.height = h /\ trace[k].update.timestamp = T
        /\ \A j \in (k + 1)..Len(trace) :
              ~(/\ IsAppend(trace[j].update) /\ ~trace[j].update.is_microblock
                /\ trace[j].update.height = h)

\* C13: a timestamp-less microblock at height H received while
\* last_block_height = H is pushed at the tail of the buffer with the
\* timestamp of the last full block received at height H, and the step leaves
\* last_block_height and last_block_timestamp as they were.
C13_MicroblockInheritsTimestamp ==
    [][MicroblockAtLastHeight
       => /\ Last(trace').outcome = "pushed"
          /\ Last(trace').pushed
                = Append(buffer, WithTimestamp(Last(trace').update, last_block_timestamp))
          /\ LastFullBlockTimestamp(Last(trace').update.height, last_block_timestamp)
          /\ last_block_height' = last_block_height
          /\ last_block_timestamp' = last_block_timestamp]_vars

\* C13 witness: two microblocks in a row were received after a full block of
\* their height, and the second one sits in the buffer with its timestamp.
C13_Witness ==
    /\ Len(trace) >= 3
    /\ trace[Len(trace) - 1].update = M1 /\ trace[Len(trace) - 1].outcome = "pushed"
    /\ Last(trace).update = M2 /\ Last(trace).outcome = "pushed"
    /\ Last(Last(trace).pushed) = M2ts
    /\ last_block_height = Some(1) /\ last_block_timestamp = Some(100)

\* s is a prefix of t.
IsPrefix(s, t) == Len(s) <= Len(t) /\ SubSeq(t, 1, Len(s)) = s

\* No step that leaves a Rollback at the tail of the buffer flushes.
NoFlushOnRollbackTail ==
    \A k \in 1..Len(trace) :
        (trace[k].pushed # << >> /\ IsRollback(Last(trace[k].pushed))) => ~trace[k].flush

\* C14 as claimed: no step that leaves a Rollback at the tail of the buffer
\* flushes, and once a Rollback has been pushed it and everything buffered
\* before it stay in the buffer, unflushed, as long as no Append is received.
C14_RollbackTailHeldUntilAppend ==
    /\ NoFlushOnRollbackTail
    /\ \A k \in 1..Len(trace) :
          (IsRollback(trace[k].update) /\ trace[k].outcome = "pushed")
          => \A j \in (k + 1)..Len(trace) :
                (\A i \in (k + 1)..j : IsRollback(trace[i].update))
                => (IsPrefix(trace[k].pushed, trace[j].pushed) /\ ~trace[j].flush)

\* The concatenation of a sequence of batches.
RECURSIVE Concat(_)
Concat(batches) ==
    IF batches = << >> THEN << >> ELSE Head(batches) \o Concat(Tail(batches))

\* The first n received updates with the rollback folds applied: a pushed
\* update is added as it was buffered, an absorbed Rollback removes what
\* follows the latest Append of its target, a panic adds nothing.
RECURSIVE Folded(_)
Folded(n) ==
    IF n = 0 THEN << >>
    ELSE LET e == trace[n]
             s == Folded(n - 1)
         IN CASE e.outcome = "pushed" -> Append(s, Last(e.pushed))
              [] e.outcome = "absorbed" -> SubSeq(s, 1, rposition(s, e.update.block_id))
              [] OTHER -> s

\* What the Batcher holds: the buffer, or during a send the drained batch and
\* the detached microblock.
Held == IF batcher_pc = "send" THEN updates \o delayed_update ELSE buffer

\* How many batches have been taken from the channel.
Taken == Len(emitted) - Len(output)

FoldedOrder ==
    /\ Concat(emitted) \o Held = Folded(Len(trace))
    /\ Taken >= 0
    /\ output = SubSeq(emitted, Taken + 1, Len(emitted))

WriterTakesNext ==
    (writer_pc = "recv" /\ writer_pc' = "write")
    => (batch' = emitted[Taken + 1] /\ output' = Tail(output))

\* C15: the batches sent so far, followed by what the Batcher holds, are the
\* received updates with the rollback folds applied, in the order received;
\* the channel hands the batches over in the order sent, and the Writer takes
\* them one by one in that order.
C15_OrderPreserved == []FoldedOrder /\ [][WriterTakesNext]_vars

\* C15 witness: an absorbed Rollback erased a buffered update, a batch sent
\* after it has been committed by the Writer and a microblock is still held.
C15_Witness ==
    /\ \E k \in 1..Len(trace) :
          trace[k].outcome = "absorbed" /\ Len(trace[k].pushed) < Len(trace[k].buffer)
    /\ emitted # << >> /\ batch = Last(emitted)
    /\ writer_pc = "recv" /\ store.blocks_microblocks # {}
    /\ buffer # << >>

\* The heights stored, the largest of them (0 when there is none), and
\* whether they are the heights 1..H without a gap.
Heights(st) == {b.height : b \in st.blocks_microblocks}
MaxStored(st) ==
    IF Heights(st) = {} THEN 0 ELSE CHOOSE h \in Heights(st) : \A g \in Heights(st) : g <= h
Contiguous(st) == Heights(st) = 1..MaxStored(st)

\* The step in which consumer::run has rewound the store and chosen the
\* height to stream from.
BootstrapDone == writer_pc = "init" /\ writer_pc' = "recv"

\* C17 as claimed: after the bootstrap of a store with contiguous heights up
\* to H and a depth d with d >= 1 and H >= d, the stream starts at the height
\* that follows the largest height left in the store.
C17_StartsAboveStore ==
    [][(/\ BootstrapDone
        /\ Heights(store) # {} /\ Contiguous(store)
        /\ start_rollback_depth >= 1
        /\ MaxStored(store) >= start_rollback_depth)
       => starting_height' = Some(MaxStored(store') + 1)]_vars

\* C18: the bootstrap of a store with largest height H and depth d deletes
\* exactly the block rows with height > H - d when d >= 1 and H >= d, and no
\* row when the store is empty, d = 0 or H < d.
C18_BootstrapRewind ==
    [][BootstrapDone
       => IF /\ Heights(store) # {}
             /\ start_rollback_depth >= 1
             /\ MaxStored(store) >= start_rollback_depth
          THEN store'.blocks_microblocks
                  = {b \in store.blocks_microblocks :
                        b.height <= MaxStored(store) - start_rollback_depth}
          ELSE store'.blocks_microblocks = store.blocks_microblocks]_vars

\* C18 witness: a bootstrap with depth 2 has deleted the rows of two heights,
\* a microblock among them, and has kept the rows below.
C18_Witness ==
    /\ writer_pc = "recv" /\ batch = << >> /\ starting_height = Some(3)
    /\ start_rollback_depth = 2
    /\ Heights(before_batch) = {1, 2, 3}
    /\ Heights(store) = {1}
    /\ \E b \in before_batch.blocks_microblocks : b.id = "m3"
    /\ \E b \in store.blocks_microblocks : b.id = "m1"

\* Only Appends have been received so far.
AppendsOnly == \A k \in 1..Len(trace) : IsAppend(trace[k].update)

\* The row r of a table is the i-th of rows in uid order.
IsNth(rows, r, i) == r \in rows /\ Cardinality({q \in rows : q.uid < r.uid}) = i - 1

\* The transactions stored for the block row r are those of append, in order.
HoldsTransactionsOf(txs, r, append) ==
    LET mine == {t \in txs : t.block_uid = r.uid}
    IN /\ Cardinality(mine) = Len(append.transactions)
       /\ \A j \in 1..Len(append.transactions) :
             \E t \in mine :
                /\ IsNth(mine, t, j)
                /\ t.id = append.transactions[j].id
                /\ t.sender = append.transactions[j].sender
                /\ t.tx_type = append.transactions[j].tx_type

\* The persisted rows are those of the first Appends of appends, in order.
PersistedIsPrefixOf(appends) ==
    LET rows == Persisted.blocks_microblocks
        n == Cardinality(rows)
    IN /\ n <= Len(appends)
       /\ Cardinality({r.uid : r \in rows}) = n
       /\ \A i \in 1..n :
             \E r \in rows :
                /\ IsNth(rows, r, i)
                /\ r.id = appends[i].block_id
                /\ r.height = appends[i].height
                /\ Some(r.time_stamp) = appends[i].timestamp
                /\ HoldsTransactionsOf(Persisted.transactions, r, appends[i])
       /\ \A t \in Persisted.transactions : \E r \in rows : t.block_uid = r.uid

\* C16: as long as only Appends have been received, the persisted block rows
\* in uid order are the first of the received Appends in the order received,
\* each with exactly the transactions of its Append.
C16_PersistedIsInputPrefix == AppendsOnly => PersistedIsPrefixOf(Folded(Len(trace)))

\* C16 witness: after four Appends, sent in more than one batch, three or
\* more rows are persisted, a microblock with its transaction among them.
C16_Witness ==
    /\ AppendsOnly /\ Len(trace) = 4
    /\ Len(emitted) >= 2
    /\ snapshot = None
    /\ Cardinality(store.blocks_microblocks) >= 3
    /\ \E t \in store.transactions : t.id = "t2"

\* While output.send is pending the Batcher receives nothing: no update is
\* added to its history and none leaves the channel from the Source.
NoIngestWhileSending ==
    batcher_pc = "send" => (trace' = trace /\ IsPrefix(input, input'))

\* C19: at most one sent batch waits in the channel to the Writer, the
\* Batcher receives no update while its send is pending, and at most 16
\* updates are queued in the channel from the Source.
C19_Backpressure ==
    /\ [](Len(output) <= 1 /\ Len(input) <= 16)
    /\ [][NoIngestWhileSending]_vars

\* C19 witness: a batch waits in the channel, the Batcher's send of the next
\* one is pending, 16 updates are queued and the stream has more.
C19_Witness ==
    /\ Len(output) = 1
    /\ batcher_pc = "send"
    /\ Len(input) = 16
    /\ Len(trace) + Len(input) < Len(stream)

\* Once the transaction of a batch has failed the writer loop has ended: the
\* Writer takes no batch from the channel and applies nothing, neither the
\* failed batch again nor a later one.
WriterStopsAfterFailure ==
    /\ writer_pc = "abort" => writer_pc' \in {"abort", "failed"}
    /\ writer_pc = "failed"
       => /\ writer_pc' = "failed"
          /\ UNCHANGED << batch, applied, store, snapshot, last_height >>
          /\ IsPrefix(output, output')

\* C20: after the store transaction of a batch fails, the Writer applies no
\* further batch and does not retry the failed one or any of its updates.
C20_WriterStopsAfterFailure == [][WriterStopsAfterFailure]_vars

\* C20 witness: the transaction of the second batch failed after the first
\* was committed, and a later batch waits in the channel, never to be taken.
C20_Witness ==
    /\ writer_pc = "failed"
    /\ Len(emitted) >= 3
    /\ batch = emitted[2]
    /\ output = << emitted[3] >>
    /\ Rows(store) = Rows(before_batch)
    /\ store.blocks_microblocks # {}

\* The rows a query selects when it has no cursor.
Selected(q) ==
    {t \in store.transactions :
        /\ (q.types # None /\ q.types[1] # << >>) => InSeq(t.op_type, q.types[1])
        /\ q.sender # None => t.sender = q.sender[1]}

PageLimit(q) == IF q.limit = None THEN MAX_QUERY_LIMIT ELSE q.limit[1]

\* A listing that began without a cursor, with 1 <= L < N, whose last request
\* was answered.
Listing ==
    /\ listed.first # None
    /\ listed.first[1].after = None
    /\ reply[1].status = 200
    /\ 1 <= PageLimit(listed.first[1])
    /\ PageLimit(listed.first[1]) < Cardinality(Selected(listed.first[1]))

\* C21: in a listing over an unchanged table with N matching rows and limit L,
\* 1 <= L < N, the first page holds the L rows of the smallest uids in
\* ascending order, has_next_page is true and last_cursor is the uid of the
\* (L+1)-th row; the pages obtained by following the cursor hold, together and
\* in order, the matching rows in ascending uid order, each once: a page with
\* a cursor holds L rows and its cursor is the uid of the next row, and the
\* page without a cursor ends the list of all N rows.
C21_Paging ==
    Listing =>
        LET q == listed.first[1]
            rows == Selected(q)
            info == reply[1].page_info
        IN /\ \A i \in 1..Len(listed.items) :
                  \E r \in rows : IsNth(rows, r, i) /\ listed.items[i] = Operation(r)
           /\ Len(listed.items) <= Cardinality(rows)
           /\ query = listed.first => info.has_next_page
           /\ IF info.has_next_page
              THEN /\ Len(reply[1].items) = PageLimit(q)
                   /\ \E r \in rows : /\ IsNth(rows, r, Len(listed.items) + 1)
                                      /\ info.last_cursor = Some(to_string(r.uid))
              ELSE /\ Len(listed.items) = Cardinality(rows)
                   /\ info.last_cursor = None

\* C21 witness: a listing by sender with limit 2 over the table of 102 rows has
\* reached its last page, after pages whose cursors had two and three digits.
C21_Witness ==
    /\ Listing
    /\ listed.first[1].sender = Some("alice")
    /\ listed.first[1].limit = Some(2)
    /\ Cardinality(store.transactions) = MAX_QUERY_LIMIT + 2
    /\ query[1].after = Some(<< "1", "0", "1" >>)
    /\ ~reply[1].page_info.has_next_page
    /\ Len(listed.items) = 51

\* A string that is the decimal numeral of an integer: an optional sign, then
\* digits, at least one.
Numeral(s) ==
    LET body == IF s # << >> /\ s[1] \in {"+", "-"} THEN Tail(s) ELSE s
    IN /\ body # << >>
       /\ \A i \in 1..Len(body) :
              body[i] \in {"0", "1", "2", "3", "4", "5", "6", "7", "8", "9"}

BadRequest(q) ==
    \/ q.limit # None /\ q.limit[1] > 100
    \/ q.after # None /\ ~Numeral(q.after[1])

\* C22: a request with limit > 100, or with an after that is not the numeral
\* of an integer, is answered with status 400 and the Repo is not called for
\* it; a request without limit that is not rejected is served with a page
\* limit of 100, so its page holds at most 100 items and, over more rows than
\* that, exactly 100.
C22_RequestValidation ==
    query # None =>
        LET q == query[1]
            r == reply[1]
        IN /\ BadRequest(q) => r.status = 400 /\ r.page = None
           /\ ~BadRequest(q) => r.page # None
           /\ (~BadRequest(q) /\ q.limit = None) =>
                 /\ r.page[1].limit = 100
                 /\ Len(r.items) <= 100
                 /\ (r.status = 200 /\ q.after = None /\ Cardinality(Selected(q)) > 100)
                       => Len(r.items) = 100 /\ r.page_info.has_next_page

\* C22 witness: a request with limit 101 and a well-formed cursor has been
\* rejected with 400 without a call of the Repo.
C22_Witness ==
    /\ query # None
    /\ query[1].limit = Some(101)
    /\ query[1].after = Some(<< "+", "1" >>)
    /\ reply[1].status = 400
    /\ reply[1].page = None
    /\ store.transactions # {}

\* A request without limit over 102 rows was answered with 100 of them.
C22_DefaultLimitReached ==
    /\ query # None
    /\ query[1].limit = None
    /\ reply[1].status = 200
    /\ Len(reply[1].items) = 100
    /\ reply[1].page_info.last_cursor = Some(<< "1", "0", "1" >>)

\* The Append the upstream sent, when its body carries transactions.
SrcAppend == src[1].update[1]
SrcCarriesTransactions ==
    /\ src[1].update # None
    /\ src[1].update[1].kind = "Append"
    /\ src[1].update[1].body # None
    /\ extract_transactions(src[1].update[1].body[1]) # None
SrcTransactions == extract_transactions(SrcAppend.body[1])[1]
SrcTriples ==
    IF Len(SrcTransactions) = Len(SrcAppend.transactions_metadata)
    THEN 1..Len(SrcTransactions) ELSE {}

IsForeignBody(tx) ==
    tx.transaction # None /\ tx.transaction[1].kind = "EthereumTransaction"

IsNativeInvokeBody(tx) ==
    /\ tx.transaction # None
    /\ tx.transaction[1].kind = "WavesTransaction"
    /\ tx.transaction[1].data # None
    /\ tx.transaction[1].data[1].kind = "InvokeScript"

\* C23 as claimed: the normalization of an Append with a transaction whose
\* metadata is a foreign invoke and whose body is not a foreign transaction
\* ends, unless an assertion stops it, with a normalization error.
C23_ForeignMetadataNeedsForeignBody ==
    (/\ converted # None
     /\ SrcCarriesTransactions
     /\ converted[1].status # "panic"
     /\ \E i \in SrcTriples : /\ IsForeignInvoke(SrcAppend.transactions_metadata[i])
                              /\ ~IsForeignBody(SrcTransactions[i]))
        => converted[1].status = "err"

\* What holds of it: the error is returned when the body is absent or is a
\* native transaction other than an invoke-script.
C23_ForeignMetadataOtherBody ==
    (/\ converted # None
     /\ SrcCarriesTransactions
     /\ converted[1].status # "panic"
     /\ \E i \in SrcTriples : /\ IsForeignInvoke(SrcAppend.transactions_metadata[i])
                              /\ ~IsForeignBody(SrcTransactions[i])
                              /\ ~IsNativeInvokeBody(SrcTransactions[i]))
        => converted[1].status = "err"

\* The triples whose metadata is a native InvokeScript or a foreign Invoke.
IsInvocation(i) ==
    \/ IsNativeInvoke(SrcAppend.transactions_metadata[i])
    \/ IsForeignInvoke(SrcAppend.transactions_metadata[i])

Invocations == SelectSeq([i \in 1..Len(SrcTransactions) |-> i], IsInvocation)

\* The Transaction of the i-th triple: its id and sender in base58, type 16
\* under native metadata and 18 under foreign.
TransactionOf(i) ==
    Transaction(base58(SrcAppend.transaction_ids[i]),
                base58(SrcAppend.transactions_metadata[i].sender_address),
                IF IsNativeInvoke(SrcAppend.transactions_metadata[i]) THEN 16 ELSE 18)

\* The update of the upstream with the triples of the other metadata removed.
WithTransactions(body, txs) ==
    IF body.kind = "Block"
    THEN [body EXCEPT !.block = Some([body.block[1] EXCEPT !.transactions = txs])]
    ELSE [body EXCEPT !.micro_block =
             Some([body.micro_block[1] EXCEPT !.micro_block = Some([transactions |-> txs])])]

InvocationsOnly ==
    [src[1] EXCEPT !.update = Some(
        UpdateAppend(Some(WithTransactions(SrcAppend.body[1],
                              [k \in 1..Len(Invocations) |-> SrcTransactions[Invocations[k]]])),
                     [k \in 1..Len(Invocations) |-> SrcAppend.transaction_ids[Invocations[k]]],
                     [k \in 1..Len(Invocations) |->
                         SrcAppend.transactions_metadata[Invocations[k]]]))]

\* C24: the transactions of a normalized Append are those of the triples
\* whose metadata is a native InvokeScript (type 16) or a foreign Invoke (type
\* 18), in the order of the input; the triples of any other metadata change
\* nothing: the result is the one of the update without them.
C24_OnlyInvocationsKept ==
    (converted # None /\ SrcCarriesTransactions /\ SrcTriples # {}) =>
        /\ converted[1].status = "ok" =>
              converted[1].value.transactions =
                  [k \in 1..Len(Invocations) |-> TransactionOf(Invocations[k])]
        /\ converted[1] = convert_update(InvocationsOnly)

\* C24 witness: a block of two transactions was normalized; the first, with
\* other metadata and no body, was skipped and the second, a foreign invoke,
\* was kept.
C24_Witness ==
    /\ converted # None
    /\ SrcCarriesTransactions
    /\ Len(SrcTransactions) = 2
    /\ SrcAppend.transactions_metadata[1] = TransactionMetadata(Some(MetadataTransfer))
    /\ SrcTransactions[1] = SignedTransaction(None)
    /\ IsForeignInvoke(SrcAppend.transactions_metadata[2])
    /\ converted[1].status = "ok"
    /\ converted[1].value.transactions = << Transaction(<< "3" >>, << "A" >>, 18) >>

\* The rule table of need_flush: each row is a condition and the result it
\* gives; the last row always applies.
RuleTable(buf, params, elapsed) ==
    << << buf = << >>, FALSE >>,
       << buf # << >> /\ IsRollback(Last(buf)), FALSE >>,
       << \E i \in 1..Len(buf) : IsRollback(buf[i]), TRUE >>,
       << Len(buf) > 1 /\ IsAppend(Last(buf)) /\ Last(buf).is_microblock, TRUE >>,
       << params.max_updates # None /\ Len(buf) >= params.max_updates[1], TRUE >>,
       << params.max_delay # None /\ elapsed >= params.max_delay[1], TRUE >>,
       << params.max_updates = None /\ params.max_delay = None, TRUE >>,
       << TRUE, FALSE >> >>

FirstMatching(table) == CHOOSE n \in 1..Len(table) :
                            table[n][1] /\ \A m \in 1..(n - 1) : ~table[m][1]

FirstRule(buf, params, elapsed) ==
    LET table == RuleTable(buf, params, elapsed) IN table[FirstMatching(table)][2]

\* The step of Batcher::run that has received an update and not panicked
\* decides the flush by the table.
FlushByTable ==
    (Len(trace') = Len(trace) + 1 /\ Last(trace').outcome # "panic") =>
        Last(trace').flush = FirstRule(Last(trace').pushed, batching_params, last_flush_elapsed)

\* C25: need_flush returns the result of the first matching row of the ordered
\* table (empty -> false; Rollback at the tail -> false; a Rollback anywhere ->
\* true; microblock at the tail and size > 1 -> true; max_updates reached ->
\* true; max_delay elapsed -> true; neither parameter set -> true; otherwise
\* false): so it decides each iteration of run, and so it answers for the empty
\* buffer and for every prefix of what the Batcher holds.
C25_NeedFlushRuleTable ==
    /\ [][FlushByTable]_vars
    /\ [](\A n \in 0..Len(Held) :
             need_flush(SubSeq(Held, 1, n), batching_params, last_flush_elapsed)
                = FirstRule(SubSeq(Held, 1, n), batching_params, last_flush_elapsed))

\* C25 witness: with max_updates = 3 and max_delay = 1, a lone full block was
\* flushed because the delay had elapsed, after an earlier step that had left
\* a Rollback at the tail of a buffer of three unsent.
C25_Witness ==
    /\ batching_params = [max_updates |-> Some(3), max_delay |-> Some(1)]
    /\ Len(trace) >= 1
    /\ Last(trace).flush
    /\ Len(Last(trace).pushed) = 1
    /\ IsAppend(Last(trace).pushed[1])
    /\ ~Last(trace).pushed[1].is_microblock
    /\ last_flush_elapsed >= 1
    /\ \E k \in 1..(Len(trace) - 1) :
          /\ ~trace[k].flush
          /\ Len(trace[k].pushed) >= 3
          /\ IsRollback(Last(trace[k].pushed))

TailIsMicroblock(buf) == buf # << >> /\ IsAppend(Last(buf)) /\ Last(buf).is_microblock

\* The step in which the output.send of a flush completes.
FlushCompletes == batcher_pc = "send" /\ batcher_pc' = "recv"

FlushEmitsAllButMicroblockTail ==
    FlushCompletes =>
        LET pre == Last(trace).pushed
        IN /\ Len(emitted') = Len(emitted) + 1
           /\ Last(output') = Last(emitted')
           /\ Last(emitted') = IF TailIsMicroblock(pre)
                               THEN SubSeq(pre, 1, Len(pre) - 1) ELSE pre
           /\ buffer' = IF TailIsMicroblock(pre) THEN << Last(pre) >> ELSE << >>
           /\ last_flush_elapsed' = 0

\* C26: every flush sends the buffer as it was before the flush, in order,
\* without its tail when the tail is a microblock Append; right after the
\* flush the buffer is empty when that tail was not a microblock and holds
\* just that microblock otherwise, and the time since the last flush is zero.
C26_Flush == [][FlushEmitsAllButMicroblockTail]_vars

\* C26 witness: with max_delay set, a flush later than the first has sent two
\* updates and left the microblock that followed them in the buffer.
C26_Witness ==
    /\ batcher_pc = "recv"
    /\ batching_params.max_delay # None
    /\ Len(emitted) >= 2
    /\ Last(trace).flush
    /\ Len(Last(trace).pushed) = 3
    /\ Len(Last(emitted)) = 2
    /\ buffer = << Last(Last(trace).pushed) >>
    /\ TailIsMicroblock(buffer)
    /\ last_flush_elapsed = 0

\* The update received last is a microblock Append.
LastIngested == Last(trace).update
LastIngestedIsMicroblock ==
    /\ trace # << >>
    /\ Last(trace).outcome # "panic"
    /\ IsAppend(LastIngested)
    /\ LastIngested.is_microblock

\* Its id was not received before.
LastIngestedIsNew ==
    \A k \in 1..(Len(trace) - 1) :
        IsAppend(trace[k].update) => trace[k].update.block_id # LastIngested.block_id

HoldsBlock(batch_, id) == \E i \in 1..Len(batch_) : IsAppend(batch_[i]) /\ batch_[i].block_id = id

\* In the step that received a microblock, the batch drained, if any, stops
\* short of the tail of the buffer, which is that microblock and stays.
MicroblockKeptInItsStep ==
    \A k \in 1..Len(trace) :
        (/\ trace[k].outcome # "panic"
         /\ IsAppend(trace[k].update)
         /\ trace[k].update.is_microblock)
            => /\ Last(trace[k].pushed).block_id = trace[k].update.block_id
               /\ Len(trace[k].updates) < Len(trace[k].pushed)
               /\ IsPrefix(trace[k].updates, trace[k].pushed)
               /\ trace[k].kept # << >>
               /\ Last(trace[k].kept) = Last(trace[k].pushed)

\* C27: while the update received last is a microblock Append, the Batcher
\* still holds it, at the tail of its buffer or as the detached tail of the
\* flush being sent, and no batch sent or drained so far holds it: it is sent
\* only by a step that receives a later update.
C27_LatestMicroblockDelayed ==
    /\ MicroblockKeptInItsStep
    /\ LastIngestedIsMicroblock =>
          /\ Held # << >>
          /\ Last(Held) = Last(Last(trace).pushed)
          /\ Last(Held).block_id = LastIngested.block_id
          /\ LastIngestedIsNew =>
                /\ ~HoldsBlock(updates, LastIngested.block_id)
                /\ \A n \in 1..Len(emitted) : ~HoldsBlock(emitted[n], LastIngested.block_id)

\* C27 witness: a microblock was received in a step that flushed, the flush
\* has been sent with the full block before it, and the microblock is still
\* in the buffer.
C27_Witness ==
    /\ LastIngestedIsMicroblock
    /\ LastIngestedIsNew
    /\ Last(trace).flush
    /\ batcher_pc = "recv"
    /\ Last(emitted) # << >>
    /\ buffer = << WithTimestamp(LastIngested, Some(100)) >>
    /\ LastIngested.timestamp = None

\* The chain after the first n updates received: its blocks and microblocks
\* in order, a Rollback cutting it after its target.
RECURSIVE ChainAfter(_)
ChainAfter(n) ==
    IF n = 0 THEN << >>
    ELSE LET chain == ChainAfter(n - 1)
             u == trace[n].update
         IN IF IsAppend(u) THEN Append(chain, u)
            ELSE IF HoldsBlock(chain, u.block_id)
            THEN SubSeq(chain, 1, CHOOSE i \in 1..Len(chain) : chain[i].block_id = u.block_id)
            ELSE chain

\* The n-th update continues the chain: a microblock comes on a tip of its own
\* height, a full block on a tip one lower (or first), no id comes twice and a
\* Rollback names a block of the chain.
Continues(n) ==
    LET chain == ChainAfter(n - 1)
        u == trace[n].update
    IN IF IsRollback(u) THEN HoldsBlock(chain, u.block_id)
       ELSE /\ ~HoldsBlock(chain, u.block_id)
            /\ IF u.is_microblock
               THEN chain # << >> /\ Last(chain).height = u.height
               ELSE chain = << >> \/ Last(chain).height + 1 = u.height

ValidChainHistory == \A n \in 1..Len(trace) : Continues(n)

\* C28 as claimed: on a valid chain history push_update never panics.
C28_NoPanicOnValidHistory ==
    ValidChainHistory => \A n \in 1..Len(trace) : trace[n].outcome # "panic"

\* The part that holds: on a valid chain history without a Rollback before
\* it, a microblock never makes push_update panic.
C28_NoPanicWithoutRollback ==
    ValidChainHistory =>
        \A n \in 1..Len(trace) :
            (\A k \in 1..(n - 1) : IsAppend(trace[k].update)) => trace[n].outcome # "panic"

\* The two ways to the panic on a valid history: a microblock right after an
\* escalated Rollback, and one right after an absorbed Rollback.
C28_PanicAfterEscalatedRollback ==
    /\ ValidChainHistory
    /\ Len(trace) >= 2
    /\ Last(trace).outcome = "panic"
    /\ IsRollback(trace[Len(trace) - 1].update)
    /\ trace[Len(trace) - 1].outcome = "pushed"

C28_PanicAfterAbsorbedRollback ==
    /\ ValidChainHistory
    /\ Len(trace) >= 2
    /\ Last(trace).outcome = "panic"
    /\ trace[Len(trace) - 1].outcome = "absorbed"

\* The rows one step of write_batch adds to the two tables.
NewBlocks == store'.blocks_microblocks \ store.blocks_microblocks
NewTransactions == store'.transactions \ store.transactions

\* The update the loop of write_batch is at.
WriterAt == batch[applied + 1]

\* One Append: at most one block row is added and it is the Append's; the
\* transaction rows added are those of the first k transactions of the
\* Append (the loop stops at the first insert that fails), each holding its
\* transaction and the uid of the block row as block_uid; when the Append is
\* applied, the block row and all of its transactions are there.
AppendWritten ==
    /\ Cardinality(NewBlocks) <= 1
    /\ \A b \in NewBlocks : b.id = WriterAt.block_id /\ b.height = WriterAt.height
    /\ \E k \in 0..Len(WriterAt.transactions) :
         /\ {t.id : t \in NewTransactions} = {WriterAt.transactions[i].id : i \in 1..k}
         /\ \A t \in NewTransactions :
              /\ \E i \in 1..k : t.operation = WriterAt.transactions[i]
              /\ \E b \in NewBlocks : t.block_uid = b.uid
         /\ applied' = applied + 1 => NewBlocks # {} /\ k = Len(WriterAt.transactions)

\* C29: within one batch the Writer applies the events in batch order (the
\* batch stays as received and the loop moves on by one event at a time, the
\* store changing as that event says), and for each Append insert_block is
\* called once, before any insert_tx of the Append, and the uid it returned is
\* the block_uid of every transaction of the Append, in the Append's order.
C29_WriteOrder ==
    [][(writer_pc = "write" /\ applied < Len(batch)) =>
          /\ batch' = batch
          /\ applied' \in {applied, applied + 1}
          /\ IF IsAppend(WriterAt)
             THEN AppendWritten
             ELSE NewBlocks = {} /\ NewTransactions = {}]_vars

\* The second event of a batch is applied after the first, and it is the Append of
\* two transactions: both rows carry the uid of its block row, in its order.
C29_Witness ==
    /\ writer_pc = "write"
    /\ applied = 2
    /\ batch[1] = B1
    /\ batch[2] = B2Pair
    /\ \E b \in store.blocks_microblocks, t, u \in store.transactions :
         /\ b.id = "b2"
         /\ t.id = "t4" /\ t.block_uid = b.uid
         /\ u.id = "t3" /\ u.block_uid = b.uid

\* Referential integrity of a pair of tables.
References(tables) ==
    \A t \in tables.transactions :
        \E b \in tables.blocks_microblocks : b.uid = t.block_uid

\* C30: after any sequence of committed batches and bootstrap rewinds, every
\* persisted transaction row's block_uid is the uid of an existing block row:
\* a rollback by uid or by height that deletes a block removes its
\* transactions too.  The rows inside an open store transaction keep it as well.
C30_ReferentialIntegrity == References(Persisted) /\ References(Rows(store))

\* A transaction row stored before, gone now together with its block row.
RemovedWithBlock(before, now) ==
    \E t \in before.transactions :
        /\ \A u \in now.transactions : u.id # t.id
        /\ \A b \in now.blocks_microblocks : b.uid # t.block_uid

\* After a restart, a committed batch of one Rollback has deleted a block row
\* by uid and its transaction went with it.
C30_Witness ==
    /\ starting_height # None
    /\ writer_pc = "recv"
    /\ snapshot = None
    /\ applied = 1
    /\ IsRollback(batch[1])
    /\ RemovedWithBlock(before_batch, Persisted)

\* The rewind of init_db_task has deleted block rows by height and their
\* transactions went with them.
C30_RewindWitness ==
    /\ starting_height # None
    /\ batch = << >>
    /\ RemovedWithBlock(before_batch, Persisted)

\* The callers whose closure has taken the connection and runs a transaction on it.
InTransaction == {c \in Callers : task[c].pc = "transaction"}

\* Some closure has panicked: the case the claim leaves out.
ClosurePanicked ==
    \E c \in Callers : task[c].pc = "panicked" /\ task[c].result = Some("sync task panicked")

\* C31: at most one store transaction runs on the connection at any time, it
\* is run by the holder of the mutex, and after every transaction, committed
\* or aborted by an error, the connection is back in the slot: whenever the
\* mutex is free the next caller finds the connection there, and no caller
\* finds the slot empty or the mutex poisoned.
C31_OneTransactionAtATime ==
    /\ Cardinality(InTransaction) <= 1
    /\ \A c \in InTransaction : conn_mutex.holder = Some(c) /\ conn = None
    /\ ~ClosurePanicked =>
         /\ conn_mutex.holder = None => conn = Some(PgConnection)
         /\ ~conn_mutex.poisoned
         /\ \A c \in Callers : task[c].pc # "panicked"

\* A caller runs a transaction after one that was aborted by an error and one
\* that was committed, while the other caller waits for the mutex.
C31_Witness ==
    /\ task[1].pc = "transaction"
    /\ task[1].calls = 2
    /\ task[1].result = Some("ok")
    /\ task[2].pc = "spawned"
    /\ task[2].calls = 2
    /\ task[2].result = Some("error")
    /\ ~ClosurePanicked

\* Every batch of a sequence applied to the empty store, in order and without
\* a store error.
RECURSIVE WriteAll(_, _)
WriteAll(st, us) ==
    IF us = << >> THEN st ELSE WriteAll(write_update(st, None, Head(us), 0).store, Tail(us))

\* The part of C32 that holds in every run: once the Source has closed its
\* channel, the Batcher and the Writer both end.
C32_PipelineStops == (source_pc = "closed") ~> (BatcherEnded /\ WriterEnded)

\* What the Source has delivered is what the Batcher has received.
QueueConsumed == input = << >> /\ \A n \in 1..Len(trace) : trace[n].update = stream[n]

\* The Batcher has stopped as Batcher::run does when its channel is closed:
\* with the queue consumed.
BatcherStopped == batcher_pc = "stopped" /\ QueueConsumed

\* The Writer has stopped with every batch emitted applied and committed.
WriterStopped ==
    /\ writer_pc = "stopped"
    /\ output = << >>
    /\ snapshot = None
    /\ Rows(store) = Rows(WriteAll(EmptyStore, Concat(emitted)))

\* C32 as claimed: once the Source has closed its channel, the Batcher
\* consumes the queue and stops, and the Writer applies every batch emitted and
\* terminates.
C32_ShutdownAsClaimed == (source_pc = "closed") ~> (BatcherStopped /\ WriterStopped)

\* The same, but for the runs in which the Writer fails or panics.
C32_ShutdownUnlessWriterFails ==
    (source_pc = "closed") ~> ((BatcherStopped /\ WriterStopped) \/ writer_pc \in {"failed", "panicked"})

\* A Batcher that stops has consumed the queue, and it stops without a flush:
\* what is in its buffer stays there and nothing is emitted any more.
C32_StopWithoutFlush ==
    [][/\ (batcher_pc' = "stopped" /\ batcher_pc # "stopped") => QueueConsumed /\ source_pc = "closed"
       /\ batcher_pc' = "stopped" =>
            /\ buffer' = buffer
            /\ emitted' = emitted
            /\ output' = output \/ output' = Tail(output)]_vars

\* A Writer that stops has applied and committed every batch emitted.
C32_WriterAppliesEmitted == writer_pc = "stopped" => WriterStopped

\* The same, but for the runs in which the Batcher panics or the Writer fails
\* or panics.
C32_ShutdownUnlessTaskFails ==
    (source_pc = "closed") ~>
        \/ BatcherStopped /\ WriterStopped
        \/ writer_pc \in {"failed", "panicked"}
        \/ batcher_pc = "panicked"

\* The run that shows it: on a valid chain history the Batcher has panicked
\* with an update still queued, and the Writer has stopped.
C32_QueueLeftAfterPanic ==
    /\ source_pc = "closed"
    /\ ValidChainHistory
    /\ batcher_pc = "panicked"
    /\ input # << >>
    /\ writer_pc = "stopped"

\* C33 as claimed: every batch the Batcher sends holds at least one event.
C33_NoEmptyBatch ==
    /\ \A i \in 1..Len(emitted) : emitted[i] # << >>
    /\ batcher_pc = "send" => updates # << >>

\* The part that holds: a batch is empty only when the buffer flushed held
\* one microblock and nothing else.
C33_EmptyBatchOnlyForLoneMicroblock ==
    \A n \in 1..Len(trace) :
        (trace[n].flush /\ trace[n].updates = << >>)
            => /\ Len(trace[n].pushed) = 1
               /\ IsAppend(trace[n].pushed[1])
               /\ trace[n].pushed[1].is_microblock

\* The run that shows it, with no batching limits: the block is sent at once,
\* the microblock after it is alone in the buffer and flush sends the empty batch.
C33_EmptyBatchSent ==
    /\ batching_params = [max_updates |-> None, max_delay |-> None]
    /\ Len(trace) = 2
    /\ trace[1].update = B1
    /\ trace[2].update = M1
    /\ emitted = << << B1 >>, << >> >>
    /\ buffer = << WithTimestamp(M1, Some(100)) >>

\* The Rollbacks of a buffer, each with its place in it.
RollbacksOf(buf) == {i \in 1..Len(buf) : IsRollback(buf[i])}

\* C34 as claimed: a Rollback pushed onto the buffer leaves it only by being
\* emitted: push_update on a later update keeps every Rollback of the buffer
\* in its place, and the flush after it drains them into the batch.
C34_PushedRollbackIsEmitted ==
    \A n \in 1..Len(trace) :
        \A i \in RollbacksOf(trace[n].buffer) :
            /\ i <= Len(trace[n].pushed)
            /\ trace[n].pushed[i] = trace[n].buffer[i]
            /\ trace[n].flush => (i <= Len(trace[n].updates) /\ trace[n].updates[i] = trace[n].buffer[i])

\* The part that holds: an update that is not an absorbed Rollback removes no
\* Rollback from the buffer.
C34_OnlyAbsorbedRollbackRemoves ==
    \A n \in 1..Len(trace) :
        trace[n].outcome # "absorbed" =>
            \A i \in RollbacksOf(trace[n].buffer) :
                /\ i <= Len(trace[n].pushed)
                /\ trace[n].pushed[i] = trace[n].buffer[i]
                /\ trace[n].flush => (i <= Len(trace[n].updates) /\ trace[n].updates[i] = trace[n].buffer[i])

\* On a valid chain history no Rollback is lost: a Rollback is pushed when its
\* target was emitted, and then nothing older than the target is buffered.
C34_HoldsOnValidHistory == ValidChainHistory => C34_PushedRollbackIsEmitted

\* The run that shows it: a Rollback in the buffer is gone after a later
\* Rollback was absorbed, and no batch carries it.
C34_PushedRollbackDropped ==
    /\ Len(trace) >= 2
    /\ Last(trace).outcome = "absorbed"
    /\ \E i \in RollbacksOf(Last(trace).buffer) :
         /\ i > Len(Last(trace).pushed)
         /\ \A k \in 1..Len(emitted) : ~InSeq(Last(trace).buffer[i], emitted[k])

\* How many times an event occurs in a sequence.
Count(x, s) == Cardinality({i \in 1..Len(s) : s[i] = x})

Elements(s) == {s[i] : i \in 1..Len(s)}

\* The event is one that was ingested: an update received, or a microblock
\* received without timestamp and given one by push_update.
Ingested(x) ==
    \E n \in 1..Len(trace) :
        \/ trace[n].update = x
        \/ /\ IsAppend(x) /\ x.is_microblock /\ x.timestamp # None
           /\ trace[n].update = WithTimestamp(x, None)

\* C35: no event is emitted twice and none is invented: each ingested event
\* that rollback folding has not removed is, as many times as it was ingested,
\* in exactly one place, the buffer (during a send: the drained batch not yet
\* sent, or the detached microblock) or one emitted batch; and every event
\* in any of these places was ingested.
C35_EachEventInOnePlace ==
    LET sent == Concat(emitted)
        folded == Folded(Len(trace))
    IN /\ \A x \in Elements(folded) \cup Elements(sent) \cup Elements(Held) :
            /\ Count(x, sent) + Count(x, Held) = Count(x, folded)
            /\ Ingested(x)
       /\ batcher_pc = "send" => buffer = << >>
       /\ batcher_pc # "send" => updates = << >> /\ delayed_update = None

\* A microblock was detached by one flush and reattached, and a later flush
\* has emitted it: it is in one batch, once, and another microblock is held.
C35_Witness ==
    /\ batcher_pc = "recv"
    /\ \E n \in 1..Len(trace) :
         /\ trace[n].flush
         /\ trace[n].kept # << >>
         /\ Count(trace[n].kept[1], Concat(emitted)) = 1
         /\ ~InSeq(trace[n].kept[1], buffer)
    /\ buffer # << >>
    /\ Last(buffer).is_microblock

\* The sequence holds a Rollback after an Append of its target.
RollbackAfterItsTarget(s) ==
    \E i, j \in 1..Len(s) :
        /\ i < j
        /\ IsAppend(s[i])
        /\ IsRollback(s[j])
        /\ s[i].block_id = s[j].block_id

\* C36: no batch emitted holds a Rollback whose target is the block_id of an
\* Append before it in the same batch: such a Rollback is folded in memory.
\* The same holds for the buffer and for the batch being sent.
C36_NoRollbackAfterItsTargetInBatch ==
    /\ \A k \in 1..Len(emitted) : ~RollbackAfterItsTarget(emitted[k])
    /\ ~RollbackAfterItsTarget(buffer)
    /\ ~RollbackAfterItsTarget(updates)

\* A Rollback to a buffered Append was folded in memory, and a batch emitted
\* holds an Append followed by a Rollback to another block.
C36_Witness ==
    /\ \E n \in 1..Len(trace) :
         trace[n].outcome = "absorbed" /\ InSeq(Last(trace[n].pushed), Concat(emitted))
    /\ \E k \in 1..Len(emitted) :
         \E i, j \in 1..Len(emitted[k]) :
            i < j /\ IsAppend(emitted[k][i]) /\ IsRollback(emitted[k][j])

\* The Appends of a sequence of updates that carry no timestamp.
WithoutTimestamp(s) == {i \in 1..Len(s) : IsAppend(s[i]) /\ s[i].timestamp = None}

\* C37 as claimed: every Append that reaches the Writer carries a timestamp
\* and the Writer's "block timestamp" assertion never fires, for every event
\* the normalizer can produce.
C37_AppendsCarryTimestamp ==
    /\ \A k \in 1..Len(emitted) : WithoutTimestamp(emitted[k]) = {}
    /\ WithoutTimestamp(batch) = {}
    /\ writer_pc # "panicked"

\* The part that holds: an Append without timestamp that reaches the Writer
\* is a full block, never a microblock.
C37_OnlyFullBlocksWithoutTimestamp ==
    \A k \in 1..Len(emitted) :
        \A i \in WithoutTimestamp(emitted[k]) : ~emitted[k][i].is_microblock

\* The run that shows it: the Append of a full block without header has
\* reached the Writer without timestamp and write_batch has panicked.
C37_HeaderlessBlockPanics ==
    /\ writer_pc = "panicked"
    /\ batch # << >>
    /\ applied < Len(batch)
    /\ IsAppend(batch[applied + 1])
    /\ ~batch[applied + 1].is_microblock
    /\ batch[applied + 1].timestamp = None
    /\ \E n \in 1..Len(trace) : trace[n].update = batch[applied + 1]

====
